---- MODULE Spec2Model ----
(***************************************************************************)
(* TimeSync: cross-timezone meeting poll.                                  *)
(*                                                                         *)
(* The module models                                                       *)
(*   - the overlap engine        (src/src/lib/overlap.ts),                 *)
(*   - the compromise selector   (src/unnamed/part_001, lib/ai),           *)
(*   - the meeting and participant request handlers                        *)
(*     (src/src/app/api/meetings/route.ts, src/unnamed/part_000).          *)
(*                                                                         *)
(* Instants are counted in minutes since the epoch (a JavaScript Date      *)
(* holds milliseconds; every instant of the model is a whole minute, so    *)
(* getTime() is 60000 times the model's number and equality and order are  *)
(* the same).  The server's local zone is taken to be UTC.                 *)
(***************************************************************************)
EXTENDS Integers, Sequences, FiniteSets, TLC

VARIABLES
    ovIn,       \* calculateOverlap: the arguments of the call
    ovOut,      \* calculateOverlap: the returned OverlapResult, or NoResult
    ovPc,       \* calculateOverlap: "call" before the call, "done" after it
    aiIn,       \* getAISuggestion: the arguments of the call and the collaborator's answer
    aiOut,      \* getAISuggestion: what the call came to (NoSuggestion before it)
    aiPc,       \* getAISuggestion: "call" before the call, "done" after it
    meetings,       \* server: the Meeting table, one record per meeting id
    participantRows,\* server: the Participant table with each row's availability rows
    requests,       \* server: the requests in flight, each at its next await
    response,       \* server: the latest answer to a submission
    submissions,    \* server: availability submissions received so far
    notifications,  \* server: per meeting, the result mails handed to the transporter
                    \* and the logged failures of sendResultsEmail
    created,        \* server: the answer to the latest meeting creation
    tzIn,       \* zone operations: the instant and the zone they are applied to
    tzOut,      \* zone operations: what each of them came to
    mlIn,       \* sendResultsEmail: the arguments and the transporter's failures
    mlOut,      \* sendResultsEmail: the deliveries attempted and how the call ended
    mlPc,       \* sendResultsEmail: the recipient the loop is at, "done" after the call
    fnIn,       \* a helper function called by itself: the arguments of the call
    fnOut,      \* a helper function called by itself: what the call came to
    fnPc        \* a helper function called by itself: "call" before the call, "done" after it

ovVars == <<ovIn, ovOut, ovPc>>
aiVars == <<aiIn, aiOut, aiPc>>

srvVars == <<meetings, participantRows, requests, response, submissions, notifications,
            created>>

tzVars == <<tzIn, tzOut>>
mlVars == <<mlIn, mlOut, mlPc>>
fnVars == <<fnIn, fnOut, fnPc>>

vars == <<ovIn, ovOut, ovPc, aiIn, aiOut, aiPc,
          meetings, participantRows, requests, response, submissions, notifications,
          created, tzIn, tzOut, mlIn, mlOut, mlPc, fnIn, fnOut, fnPc>>

\* a component that takes no part in a specification rests in this state
Unused == [unused |-> TRUE]

-----------------------------------------------------------------------------
(* Bounds of the model *)

MaxParticipants == 2     \* participants handed to calculateOverlap
MaxOneTimeSlots == 6     \* ONE_TIME: availability entries, summed over the participants
MaxWeeklySlots == 4      \* RECURRING: availability entries, summed over the participants
MaxExpected == 2         \* server: expectedParticipants of a meeting is 1 .. MaxExpected
MaxSubmissions == 2      \* server: availability submissions received in one behaviour
MaxRecipients == 2       \* sendResultsEmail: recipients of one call
MaxTopSlots == 3         \* getTopOverlappingSlots: slots handed to one call
MaxLimit == 4            \* getTopOverlappingSlots: the limit of one call
MaxRanked == 3           \* candidate ranking: participants the candidates are scored for
MaxCounted == 60         \* generation loop: the slots pushed are counted modulo this number
MaxBelowZero == 30       \* generation loop: a minute below minus this number is kept as it

-----------------------------------------------------------------------------
(* Temporal slot model *)

NoDay == -1              \* dayOfWeek?: undefined

MinutesPerDay == 24 * 60
MinutesPerWeek == 7 * MinutesPerDay

NoResult == [hasOverlap |-> FALSE, overlappingSlots |-> <<>>, none |-> TRUE]

TimeSlot(start, end, dayOfWeek) ==
    [start |-> start, end |-> end, dayOfWeek |-> dayOfWeek]

\* 1 January 1970 was a Thursday (day 4)
getDay(t) == (4 + (t \div MinutesPerDay)) % 7
getUTCHours(t) == (t \div 60) % 24
getUTCMinutes(t) == t % 60

SlotDurations == {15, 30, 60}

-----------------------------------------------------------------------------
(* Helpers over sequences *)

RECURSIVE SeqSum(_)
SeqSum(s) == IF s = <<>> THEN 0 ELSE Head(s) + SeqSum(Tail(s))

RECURSIVE Flatten(_)
Flatten(ss) == IF ss = <<>> THEN <<>> ELSE Head(ss) \o Flatten(Tail(ss))

SeqRange(s) == {s[i] : i \in DOMAIN s}

\* All sequences over S of length 0 .. n
SeqsUpTo(S, n) == UNION {[1..k -> S] : k \in 0..n}

-----------------------------------------------------------------------------
(* calculateOverlap, ONE_TIME mode: overlap.ts 23-67 *)

\* allSlots.set(startTime, (allSlots.get(startTime) || 0) + 1), once per
\* availability entry of every participant
StartCount(participants, t) ==
    SeqSum([p \in DOMAIN participants |->
        Cardinality({i \in DOMAIN participants[p].availability :
                        participants[p].availability[i].start = t})])

AllStarts(participants) ==
    {s.start : s \in SeqRange(Flatten([p \in DOMAIN participants |->
                                          participants[p].availability]))}

\* if (count === participantCount) overlappingSlots.push(...)
RetainedStarts(participants) ==
    {t \in AllStarts(participants) : StartCount(participants, t) = Len(participants)}

\* overlappingSlots.sort((a, b) => a.start - b.start); the starts are the
\* keys of a Map, hence distinct, and the order of the result is determined
RECURSIVE SortByStart(_)
SortByStart(S) ==
    IF S = {} THEN <<>>
    ELSE LET first == CHOOSE s \in S : \A o \in S : s.start <= o.start
         IN  <<first>> \o SortByStart(S \ {first})

AtomicSlots(participants, slotDuration) ==
    SortByStart({TimeSlot(t, t + slotDuration, NoDay) : t \in RetainedStarts(participants)})

\* a loop body that pushes every slot and extends none
MergeStepPushOnly(mergedSlots, slot) == Append(mergedSlots, slot)

MergeStepNoCheck(mergedSlots, slot) ==
    IF Len(mergedSlots) = 0 THEN <<slot>>
    ELSE [mergedSlots EXCEPT ![Len(mergedSlots)].end = slot.end]

\* the body of the loop "for (const slot of overlappingSlots)"
MergeStep(mergedSlots, slot) ==
    IF Len(mergedSlots) = 0 THEN <<slot>>
    ELSE LET lastSlot == mergedSlots[Len(mergedSlots)]
         IN  IF lastSlot.end = slot.start
             THEN [mergedSlots EXCEPT ![Len(mergedSlots)].end = slot.end]
             ELSE Append(mergedSlots, slot)

RECURSIVE MergeLoop(_, _)
MergeLoop(mergedSlots, rest) ==
    IF rest = <<>> THEN mergedSlots
    ELSE MergeLoop(MergeStep(mergedSlots, Head(rest)), Tail(rest))

calculateOneTimeOverlap(participants, slotDuration) ==
    LET mergedSlots == MergeLoop(<<>>, AtomicSlots(participants, slotDuration))
    IN  [hasOverlap |-> Len(mergedSlots) > 0, overlappingSlots |-> mergedSlots,
         none |-> FALSE]

-----------------------------------------------------------------------------
(* calculateRecurringOverlap: overlap.ts 71-134 *)

\* const dayOfWeek = slot.dayOfWeek ?? new Date(slot.start).getDay()
ResolvedDay(slot) == IF slot.dayOfWeek = NoDay THEN getDay(slot.start) ELSE slot.dayOfWeek

\* const key = `${dayOfWeek}-${hours}-${minutes}`
SlotKey(slot) == <<ResolvedDay(slot), getUTCHours(slot.start), getUTCMinutes(slot.start)>>

FlatSlots(participants) ==
    Flatten([p \in DOMAIN participants |-> participants[p].availability])

\* allSlots.get(key).count: one per availability entry carrying the key
KeyCount(participants, key) ==
    Cardinality({i \in DOMAIN FlatSlots(participants) :
                    SlotKey(FlatSlots(participants)[i]) = key})

AllKeys(participants) == {SlotKey(s) : s \in SeqRange(FlatSlots(participants))}

RetainedKeys(participants) ==
    {k \in AllKeys(participants) : KeyCount(participants, k) = Len(participants)}

\* allSlots.set(key, { count: 1, slot: { ...slot, dayOfWeek } }): the slot kept
\* for a key is the first one seen with it
KeptSlot(participants, key) ==
    LET flat == FlatSlots(participants)
        i == CHOOSE i \in DOMAIN flat :
                /\ SlotKey(flat[i]) = key
                /\ \A j \in DOMAIN flat : SlotKey(flat[j]) = key => i <= j
    IN  TimeSlot(flat[i].start, flat[i].end, ResolvedDay(flat[i]))

\* sort by dayOfWeek, then by start; two retained slots never compare equal
\* (equal day and equal start give equal keys)
RecurringBefore(a, b) ==
    \/ a.dayOfWeek < b.dayOfWeek
    \/ a.dayOfWeek = b.dayOfWeek /\ a.start <= b.start

RECURSIVE SortRecurring(_)
SortRecurring(S) ==
    IF S = {} THEN <<>>
    ELSE LET first == CHOOSE s \in S : \A o \in S : RecurringBefore(s, o)
         IN  <<first>> \o SortRecurring(S \ {first})

RecurringSlots(participants) ==
    SortRecurring({KeptSlot(participants, k) : k \in RetainedKeys(participants)})

RecurringMergeStepAnyDay(mergedSlots, slot) == MergeStep(mergedSlots, slot)

RecurringMergeStep(mergedSlots, slot) ==
    IF Len(mergedSlots) = 0 THEN <<slot>>
    ELSE LET lastSlot == mergedSlots[Len(mergedSlots)]
             sameDayOfWeek == lastSlot.dayOfWeek = slot.dayOfWeek
             consecutive == lastSlot.end = slot.start
         IN  IF sameDayOfWeek /\ consecutive
             THEN [mergedSlots EXCEPT ![Len(mergedSlots)].end = slot.end]
             ELSE Append(mergedSlots, slot)

RECURSIVE RecurringMergeLoop(_, _)
RecurringMergeLoop(mergedSlots, rest) ==
    IF rest = <<>> THEN mergedSlots
    ELSE RecurringMergeLoop(RecurringMergeStep(mergedSlots, Head(rest)), Tail(rest))

calculateRecurringOverlap(participants, slotDuration) ==
    LET mergedSlots == RecurringMergeLoop(<<>>, RecurringSlots(participants))
    IN  [hasOverlap |-> Len(mergedSlots) > 0, overlappingSlots |-> mergedSlots,
         none |-> FALSE]

-----------------------------------------------------------------------------
(* calculateOverlap: overlap.ts 3-68 *)

\* an engine that sends a single participant's list through the merge as well
calculateOverlapMergingOne(participants, slotDuration, meetingType) ==
    IF Len(participants) = 0
    THEN [hasOverlap |-> FALSE, overlappingSlots |-> <<>>, none |-> FALSE]
    ELSE IF Len(participants) = 1
    THEN [hasOverlap |-> TRUE,
          overlappingSlots |->
            MergeLoop(<<>>, SortByStart(SeqRange(participants[1].availability))),
          none |-> FALSE]
    ELSE IF meetingType = "RECURRING"
    THEN calculateRecurringOverlap(participants, slotDuration)
    ELSE calculateOneTimeOverlap(participants, slotDuration)

calculateOverlap(participants, slotDuration, meetingType) ==
    IF Len(participants) = 0
    THEN [hasOverlap |-> FALSE, overlappingSlots |-> <<>>, none |-> FALSE]
    ELSE IF Len(participants) = 1
    THEN [hasOverlap |-> TRUE, overlappingSlots |-> participants[1].availability,
          none |-> FALSE]
    ELSE IF meetingType = "RECURRING"
    THEN calculateRecurringOverlap(participants, slotDuration)
    ELSE calculateOneTimeOverlap(participants, slotDuration)

-----------------------------------------------------------------------------
(* The calls of calculateOverlap that are checked *)

MeetingTypes == {"ONE_TIME", "RECURRING"}

\* ONE_TIME availability: slots of the meeting's duration on a 15 minute raster
OneTimeStarts == {0, 15, 30}
OneTimeSlots(slotDuration) ==
    {TimeSlot(t, t + slotDuration, NoDay) : t \in OneTimeStarts}

\* RECURRING availability: Monday 23:45 and Tuesday 00:00 (UTC) of the first two
\* weeks after the epoch, untagged or tagged as Monday
MondayLate == 4 * MinutesPerDay + 23 * 60 + 45
TuesdayEarly == 5 * MinutesPerDay
Weeks == {0, 1}
WeeklySlots(slotDuration) ==
    {TimeSlot(w * MinutesPerWeek + MondayLate, w * MinutesPerWeek + MondayLate + slotDuration, NoDay) : w \in Weeks}
    \cup {TimeSlot(w * MinutesPerWeek + TuesdayEarly, w * MinutesPerWeek + TuesdayEarly + slotDuration, tag) :
            w \in Weeks, tag \in {NoDay, 1}}

\* the first participant's list is written in any order; the lists after it
\* are written in ascending order of start (a slot may be repeated)
InListOrder(a, b) ==
    \/ a.start < b.start
    \/ a.start = b.start /\ a.dayOfWeek <= b.dayOfWeek

SlotsToOffer ==
    IF ovIn.meetingType = "ONE_TIME" THEN OneTimeSlots(ovIn.slotDuration)
    ELSE WeeklySlots(ovIn.slotDuration)

MaxSlotsOfCall ==
    IF ovIn.meetingType = "ONE_TIME" THEN MaxOneTimeSlots ELSE MaxWeeklySlots

OverlapInit ==
    /\ ovIn \in {[participants |-> <<>>, slotDuration |-> d, meetingType |-> "ONE_TIME"] :
                    d \in {15, 30}}
                \cup {[participants |-> <<>>, slotDuration |-> 15, meetingType |-> "RECURRING"]}
    /\ ovOut = NoResult
    /\ ovPc = "call"
    /\ aiIn = Unused /\ aiOut = Unused /\ aiPc = "unused"
    /\ meetings = Unused /\ participantRows = Unused /\ requests = Unused
    /\ response = Unused /\ submissions = 0 /\ notifications = Unused /\ created = 0
    /\ tzIn = Unused /\ tzOut = Unused
    /\ mlIn = Unused /\ mlOut = Unused /\ mlPc = "unused"
    /\ fnIn = Unused /\ fnOut = Unused /\ fnPc = "unused"

\* the caller lists one more participant
AddParticipant ==
    /\ ovPc = "call"
    /\ Len(ovIn.participants) < MaxParticipants
    /\ ovIn' = [ovIn EXCEPT !.participants = Append(@, [availability |-> <<>>])]
    /\ UNCHANGED <<ovOut, ovPc, aiVars, srvVars, tzVars, mlVars, fnVars>>

\* the caller lists one more availability entry of the last participant
AddSlot ==
    /\ ovPc = "call"
    /\ Len(ovIn.participants) > 0
    /\ Len(FlatSlots(ovIn.participants)) < MaxSlotsOfCall
    /\ \E slot \in SlotsToOffer :
        LET p == Len(ovIn.participants)
            a == ovIn.participants[p].availability
        IN  /\ (p > 1 /\ a # <<>>) => InListOrder(a[Len(a)], slot)
            /\ ovIn' = [ovIn EXCEPT !.participants[p].availability = Append(@, slot)]
    /\ UNCHANGED <<ovOut, ovPc, aiVars, srvVars, tzVars, mlVars, fnVars>>

CalculateOverlap ==
    /\ ovPc = "call"
    /\ ovOut' = calculateOverlap(ovIn.participants, ovIn.slotDuration, ovIn.meetingType)
    /\ ovPc' = "done"
    /\ UNCHANGED <<ovIn, aiVars, srvVars, tzVars, mlVars, fnVars>>

OverlapNext == AddParticipant \/ AddSlot \/ CalculateOverlap

SpecOverlap == OverlapInit /\ [][OverlapNext]_vars

-----------------------------------------------------------------------------
(* Properties of calculateOverlap *)

OneTimeCall ==
    /\ ovPc = "done"
    /\ ovIn.meetingType = "ONE_TIME"
    /\ Len(ovIn.participants) >= 2

RecurringCall ==
    /\ ovPc = "done"
    /\ ovIn.meetingType = "RECURRING"
    /\ Len(ovIn.participants) >= 2

Offers(participant, t) ==
    \E i \in DOMAIN participant.availability : participant.availability[i].start = t

OffersKey(participant, key) ==
    \E i \in DOMAIN participant.availability : SlotKey(participant.availability[i]) = key

\* C1: ONE_TIME, two or more participants, lists with or without repeated
\* starts: the instant t is retained as the atomic slot [t, t + slotDuration]
\* if and only if every participant has an availability slot starting at t.
C1_RetainedIffOfferedByAll ==
    OneTimeCall =>
        \A t \in OneTimeStarts :
            (TimeSlot(t, t + ovIn.slotDuration, NoDay)
                \in SeqRange(AtomicSlots(ovIn.participants, ovIn.slotDuration)))
            <=> (\A p \in DOMAIN ovIn.participants : Offers(ovIn.participants[p], t))

\* the maximal chains a, a + d, .. of retained starts, each as one window
MaximalChains(R, d) ==
    {TimeSlot(c[1], c[1] + c[2] * d, NoDay) :
        c \in {c \in R \X (1..Cardinality(R)) :
                /\ (c[1] - d) \notin R
                /\ \A j \in 0..(c[2] - 1) : (c[1] + j * d) \in R
                /\ (c[1] + c[2] * d) \notin R}}

StrictlyAscending(slots) ==
    \A i \in DOMAIN slots : \A j \in DOMAIN slots : i < j => slots[i].start < slots[j].start

WindowsAreMaximalChains ==
    /\ StrictlyAscending(ovOut.overlappingSlots)
    /\ SeqRange(ovOut.overlappingSlots)
         = MaximalChains(RetainedStarts(ovIn.participants), ovIn.slotDuration)

\* no availability list holds the same slot twice
NoRepeatedSlot ==
    \A p \in DOMAIN ovIn.participants :
        \A i \in DOMAIN ovIn.participants[p].availability :
            \A j \in DOMAIN ovIn.participants[p].availability :
                ovIn.participants[p].availability[i] = ovIn.participants[p].availability[j]
                    => i = j

RetainedApart ==
    \A a \in RetainedStarts(ovIn.participants) : \A b \in RetainedStarts(ovIn.participants) :
        a < b => b - a >= ovIn.slotDuration

ShiftWeeks(slot, k) ==
    TimeSlot(slot.start + k * MinutesPerWeek, slot.end + k * MinutesPerWeek, slot.dayOfWeek)

ShiftSlot(participants, p, i, k) ==
    [participants EXCEPT ![p].availability[i] = ShiftWeeks(@, k)]

\* C3: RECURRING, two or more participants: moving any slot by whole weeks
\* leaves the set of retained keys unchanged, and a key that every
\* participant offers (on whatever calendar dates) is retained.  (The second
\* half is stated for the lists that repeat no slot, which are among the
\* claim's cases.)
C3_RetainedKeysDependOnKeysOnly ==
    RecurringCall =>
        /\ \A p \in DOMAIN ovIn.participants :
             \A i \in DOMAIN ovIn.participants[p].availability :
                \A k \in {1, 2} :
                    RetainedKeys(ShiftSlot(ovIn.participants, p, i, k))
                        = RetainedKeys(ovIn.participants)
        /\ \A key \in AllKeys(ovIn.participants) :
             (NoRepeatedSlot /\ \A p \in DOMAIN ovIn.participants :
                                    OffersKey(ovIn.participants[p], key))
                => key \in RetainedKeys(ovIn.participants)

\* The windows of the merge loop together with the retained slots each one
\* was built from: a slot opens a group when the step appends a window, and
\* joins the last group when the step extends the last window.
RECURSIVE RecurringGroups(_, _, _)
RecurringGroups(mergedSlots, groups, rest) ==
    IF rest = <<>> THEN groups
    ELSE LET next == RecurringMergeStep(mergedSlots, Head(rest))
         IN  RecurringGroups(next,
                IF Len(next) > Len(mergedSlots)
                THEN Append(groups, <<Head(rest)>>)
                ELSE [groups EXCEPT ![Len(groups)] = Append(@, Head(rest))],
                Tail(rest))

MergedGroups == RecurringGroups(<<>>, <<>>, RecurringSlots(ovIn.participants))

\* C4: RECURRING: two retained slots are merged into one window only if they
\* carry the same dayOfWeek and the earlier one's end is the later one's
\* start; no returned window spans slots of two different dayOfWeek values.
C4_MergeOnlyWithinOneDay ==
    RecurringCall =>
        /\ Len(MergedGroups) = Len(ovOut.overlappingSlots)
        /\ \A g \in DOMAIN MergedGroups :
             LET group == MergedGroups[g]
                 window == ovOut.overlappingSlots[g]
             IN  /\ window.start = group[1].start
                 /\ window.end = group[Len(group)].end
                 /\ \A i \in DOMAIN group : group[i].dayOfWeek = window.dayOfWeek
                 /\ \A i \in 1..(Len(group) - 1) : group[i].end = group[i + 1].start

\* C4 witness: Monday 23:45 and Tuesday 00:00 are both retained, under
\* different dayOfWeek values, and are returned as two windows
C4_Witness ==
    /\ RecurringCall
    /\ RetainedKeys(ovIn.participants) = {<<1, 23, 45>>, <<2, 0, 0>>}
    /\ Len(ovOut.overlappingSlots) = 2
    /\ ovOut.overlappingSlots[1].end = ovOut.overlappingSlots[2].start

-----------------------------------------------------------------------------
(* Local-time convenience: part_001 (lib/ai) 208-227, and formatSlotInTimezone *)

\* the zones of the model: two IANA names and a name no zone database holds
Zones == {"UTC", "Asia/Shanghai", "Mars/Phobos"}

ValidZone(timezone) == timezone \in {"UTC", "Asia/Shanghai"}

UtcOffset(timezone) == IF timezone = "Asia/Shanghai" THEN 8 * 60 ELSE 0

\* getHours() of an Invalid Date: NaN, for which every comparison is false
NaNHour == -1

\* toZonedTime(date, timezone).getHours(); toZonedTime does not throw on a name
\* it cannot resolve, it returns an Invalid Date
getLocalHour(date, timezone) ==
    IF ValidZone(timezone) THEN ((date + UtcOffset(timezone)) \div 60) % 24 ELSE NaNHour

\* thresholds that leave out their upper ends
getInconvenienceLevelBelow(slot, timezone) ==
    LET localHour == getLocalHour(slot.start, timezone)
    IN  IF localHour >= 9 /\ localHour < 17 THEN "ideal"
        ELSE IF localHour >= 8 /\ localHour < 20 THEN "good"
        ELSE IF localHour >= 6 /\ localHour < 22 THEN "workable"
        ELSE "difficult"

\* thresholds that leave out their lower ends
getInconvenienceLevelAbove(slot, timezone) ==
    LET localHour == getLocalHour(slot.start, timezone)
    IN  IF localHour > 9 /\ localHour <= 17 THEN "ideal"
        ELSE IF localHour > 8 /\ localHour <= 20 THEN "good"
        ELSE IF localHour > 6 /\ localHour <= 22 THEN "workable"
        ELSE "difficult"

getInconvenienceLevel(slot, timezone) ==
    LET localHour == getLocalHour(slot.start, timezone)
    IN  IF localHour >= 9 /\ localHour <= 17 THEN "ideal"
        ELSE IF localHour >= 8 /\ localHour <= 20 THEN "good"
        ELSE IF localHour >= 6 /\ localHour <= 22 THEN "workable"
        ELSE "difficult"

\* toLocaleTimeString('en-US', {timeZone, hour, minute, hour12}) raises a
\* RangeError for a timeZone the runtime does not know
FormatThrows(timezone) == ~ValidZone(timezone)

\* the 12-hour clock label of an instant in a zone, as its local minute of the day
TimeLabel(t, timezone) == (t + UtcOffset(timezone)) % MinutesPerDay

formatSlotInTimezone(slot, timezone) ==
    [startTime |-> TimeLabel(slot.start, timezone), endTime |-> TimeLabel(slot.end, timezone)]

-----------------------------------------------------------------------------
(* Compromise selector: part_001 (lib/ai) 11-206 *)

\* the slots of one day: hour 8 .. 20, minute 0, d, 2d, .. below 60
SlotsPerHour(slotDuration) == ((60 - 1) \div slotDuration) + 1

\* a day whose hours run from 8 to 21 inclusive
DaySlotsThroughNine(day, slotDuration) ==
    [i \in 1..(14 * SlotsPerHour(slotDuration)) |->
        LET hour == 8 + ((i - 1) \div SlotsPerHour(slotDuration))
            minute == ((i - 1) % SlotsPerHour(slotDuration)) * slotDuration
            slotStart == day * MinutesPerDay + hour * 60 + minute
        IN  TimeSlot(slotStart, slotStart + slotDuration, NoDay)]

DaySlots(day, slotDuration) ==
    [i \in 1..(13 * SlotsPerHour(slotDuration)) |->
        LET hour == 8 + ((i - 1) \div SlotsPerHour(slotDuration))
            minute == ((i - 1) % SlotsPerHour(slotDuration)) * slotDuration
            slotStart == day * MinutesPerDay + hour * 60 + minute
        IN  TimeSlot(slotStart, slotStart + slotDuration, NoDay)]

\* eachDayOfInterval({start, end}) of date-fns 3 (the release toZonedTime of
\* date-fns-tz belongs to): the days start .. end, and for an end before the
\* start the days between the two in reverse order, start first
eachDayOfInterval(startDate, endDate) ==
    IF startDate <= endDate
    THEN [k \in 1..(endDate - startDate + 1) |-> startDate + k - 1]
    ELSE [k \in 1..(startDate - endDate + 1) |-> startDate - k + 1]

generateAllPossibleSlots(startDate, endDate, slotDuration) ==
    LET days == eachDayOfInterval(startDate, endDate)
    IN  Flatten([k \in DOMAIN days |-> DaySlots(days[k], slotDuration)])

IsAvailable(slot, participant) ==
    \E i \in DOMAIN participant.availability :
        /\ slot.start >= participant.availability[i].start
        /\ slot.end <= participant.availability[i].end

countAvailableParticipants(slot, participants) ==
    Cardinality({p \in DOMAIN participants : IsAvailable(slot, participants[p])})

HourBonus(localHour) ==
    IF localHour >= 9 /\ localHour <= 17 THEN 5
    ELSE IF localHour >= 8 /\ localHour <= 20 THEN 3
    ELSE IF localHour >= 6 /\ localHour <= 22 THEN 1
    ELSE 0

calculateSlotScore(slot, participants) ==
    SeqSum([p \in DOMAIN participants |->
        (IF IsAvailable(slot, participants[p]) THEN 10 ELSE 0)
        + HourBonus(getLocalHour(slot.start, participants[p].timezone))])

\* a comparator that looks at the score first and at availableCount second
RankedBeforeByScore(a, b) ==
    IF b.score # a.score
    THEN b.score - a.score < 0
    ELSE b.availableCount - a.availableCount < 0

\* Array.prototype.sort is stable: an element goes before the first element of
\* the sorted part that the comparator puts strictly after it
RankedBefore(a, b) ==
    IF b.availableCount # a.availableCount
    THEN b.availableCount - a.availableCount < 0
    ELSE b.score - a.score < 0

RECURSIVE InsertRanked(_, _)
InsertRanked(x, sorted) ==
    IF sorted = <<>> THEN <<x>>
    ELSE IF RankedBefore(x, Head(sorted)) THEN <<x>> \o sorted
    ELSE <<Head(sorted)>> \o InsertRanked(x, Tail(sorted))

RECURSIVE SortRanked(_, _)
SortRanked(sorted, rest) ==
    IF rest = <<>> THEN sorted
    ELSE SortRanked(InsertRanked(Head(rest), sorted), Tail(rest))

CountedBeforeAscending(a, b) == a.count - b.count < 0

\* .sort((a, b) => b.count - a.count)
CountedBefore(a, b) == b.count - a.count < 0

RECURSIVE InsertCounted(_, _)
InsertCounted(x, sorted) ==
    IF sorted = <<>> THEN <<x>>
    ELSE IF CountedBefore(x, Head(sorted)) THEN <<x>> \o sorted
    ELSE <<Head(sorted)>> \o InsertCounted(x, Tail(sorted))

RECURSIVE SortCounted(_, _)
SortCounted(sorted, rest) ==
    IF rest = <<>> THEN sorted
    ELSE SortCounted(InsertCounted(Head(rest), sorted), Tail(rest))

\* scoredSlots, sorted; topCandidates = scoredSlots.slice(0, 5)
ScoredSlots(participants, slotDuration, dateRangeStart, dateRangeEnd) ==
    LET allPossibleSlots == generateAllPossibleSlots(dateRangeStart, dateRangeEnd, slotDuration)
    IN  SortRanked(<<>>, [i \in DOMAIN allPossibleSlots |->
            [slot |-> allPossibleSlots[i],
             score |-> calculateSlotScore(allPossibleSlots[i], participants),
             availableCount |-> countAvailableParticipants(allPossibleSlots[i], participants)]])

TopCandidates(participants, slotDuration, dateRangeStart, dateRangeEnd) ==
    LET scoredSlots == ScoredSlots(participants, slotDuration, dateRangeStart, dateRangeEnd)
    IN  SubSeq(scoredSlots, 1, IF Len(scoredSlots) < 5 THEN Len(scoredSlots) ELSE 5)

\* the results of a call
NoSlot == TimeSlot(0, 0, NoDay)
FallbackReasoning == "This time has the most participants available."

Returned(suggestedTime, reasoning, impactFrom, participantImpact) ==
    [kind |-> "suggestion", suggestedTime |-> suggestedTime, reasoning |-> reasoning,
     impactFrom |-> impactFrom, participantImpact |-> participantImpact]

ReturnedNull ==
    [kind |-> "null", suggestedTime |-> NoSlot, reasoning |-> "",
     impactFrom |-> "", participantImpact |-> <<>>]

Thrown ==
    [kind |-> "thrown", suggestedTime |-> NoSlot, reasoning |-> "",
     impactFrom |-> "", participantImpact |-> <<>>]

NoSuggestion ==
    [kind |-> "none", suggestedTime |-> NoSlot, reasoning |-> "",
     impactFrom |-> "", participantImpact |-> <<>>]

\* participants.map(p => ...) of both fallbacks; formatSlotInTimezone throws for
\* a participant whose zone the runtime does not know
FallbackSuggestion(slot, participants) ==
    IF \E p \in DOMAIN participants : FormatThrows(participants[p].timezone)
    THEN Thrown
    ELSE Returned(slot, FallbackReasoning, "computed",
            [p \in DOMAIN participants |->
                [name |-> participants[p].name,
                 localTime |-> formatSlotInTimezone(slot, participants[p].timezone),
                 inconvenienceLevel |-> getInconvenienceLevel(slot, participants[p].timezone)]])

\* lines 112-138: the catch block
CatchFallback(participants, slotDuration, dateRangeStart, dateRangeEnd) ==
    LET allSlots == generateAllPossibleSlots(dateRangeStart, dateRangeEnd, slotDuration)
        counted == SortCounted(<<>>, [i \in DOMAIN allSlots |->
                        [slot |-> allSlots[i],
                         count |-> countAvailableParticipants(allSlots[i], participants)]])
    IN  IF counted = <<>> THEN ReturnedNull
        ELSE FallbackSuggestion(counted[1].slot, participants)

\* topCandidates[result.selectedSlotIndex]?.slot is defined for the indices
\* 0 .. length - 1 and for nothing else; NoIndex stands for an answer without
\* selectedSlotIndex and for one whose selectedSlotIndex is no integer
NoIndex == -100

UsableIndex(index, topCandidates) == index >= 0 /\ index < Len(topCandidates)

\* a try block that counts a negative index from the end of the candidates
TryBlockIndexFromEnd(participants, slotDuration, dateRangeStart, dateRangeEnd, collaborator) ==
    LET topCandidates == TopCandidates(participants, slotDuration, dateRangeStart, dateRangeEnd)
        index == collaborator.selectedSlotIndex
    IN  IF Len(topCandidates) = 0 THEN ReturnedNull
        ELSE IF \E p \in DOMAIN participants : FormatThrows(participants[p].timezone)
        THEN Thrown
        ELSE IF collaborator.kind = "error" THEN Thrown
        ELSE IF collaborator.kind = "empty" THEN ReturnedNull
        ELSE IF collaborator.kind = "unparseable" THEN Thrown
        ELSE IF ~(index >= -Len(topCandidates) /\ index < Len(topCandidates))
        THEN FallbackSuggestion(topCandidates[1].slot, participants)
        ELSE Returned(topCandidates[IF index < 0 THEN Len(topCandidates) + index + 1
                                    ELSE index + 1].slot,
                IF collaborator.reasoning THEN "collaborator" ELSE "undefined",
                IF collaborator.participantImpact THEN "collaborator" ELSE "undefined",
                <<>>)

\* lines 17-111: the try block; "thrown" stands for an exception raised in it
TryBlock(participants, slotDuration, dateRangeStart, dateRangeEnd, collaborator) ==
    LET topCandidates == TopCandidates(participants, slotDuration, dateRangeStart, dateRangeEnd)
    IN  IF Len(topCandidates) = 0 THEN ReturnedNull
        \* buildPrompt formats every candidate in every participant's zone
        ELSE IF \E p \in DOMAIN participants : FormatThrows(participants[p].timezone)
        THEN Thrown
        ELSE IF collaborator.kind = "error" THEN Thrown
        ELSE IF collaborator.kind = "empty" THEN ReturnedNull
        ELSE IF collaborator.kind = "unparseable" THEN Thrown
        ELSE IF ~UsableIndex(collaborator.selectedSlotIndex, topCandidates)
        THEN FallbackSuggestion(topCandidates[1].slot, participants)
        ELSE Returned(topCandidates[collaborator.selectedSlotIndex + 1].slot,
                IF collaborator.reasoning THEN "collaborator" ELSE "undefined",
                IF collaborator.participantImpact THEN "collaborator" ELSE "undefined",
                <<>>)

getAISuggestion(participants, slotDuration, dateRangeStart, dateRangeEnd, collaborator) ==
    LET tried == TryBlock(participants, slotDuration, dateRangeStart, dateRangeEnd, collaborator)
    IN  IF tried.kind = "thrown"
        THEN CatchFallback(participants, slotDuration, dateRangeStart, dateRangeEnd)
        ELSE tried

-----------------------------------------------------------------------------
(* The calls of getAISuggestion that are checked *)

MaxDay == 2              \* the date range is day 1 .. day k after the epoch, k in 0 .. MaxDay

Names == <<"Alice", "Bob", "Carol", "Dave">>

\* availability lists: 14:00-15:00 of day 1; 22:00-23:00 of day 0 (outside
\* every range); 09:00-11:00 of day 1
SuggestLists ==
    {<<TimeSlot(MinutesPerDay + 14 * 60, MinutesPerDay + 15 * 60, NoDay)>>,
     <<TimeSlot(22 * 60, 23 * 60, NoDay)>>,
     <<TimeSlot(MinutesPerDay + 9 * 60, MinutesPerDay + 11 * 60, NoDay)>>}

SuggestParticipants ==
    UNION {{[p \in 1..n |-> [name |-> Names[p], timezone |-> choice[p][1],
                             availability |-> choice[p][2]]] :
                choice \in [1..n -> Zones \X SuggestLists]} :
            n \in 1..MaxParticipants}

\* what the reasoning collaborator does: the call fails; the answer has no
\* content; the content is no JSON; the content is a JSON object with or
\* without a selectedSlotIndex, reasoning and participantImpact
Answer(kind, index, reasoning, participantImpact) ==
    [kind |-> kind, selectedSlotIndex |-> index, reasoning |-> reasoning,
     participantImpact |-> participantImpact]

CollaboratorAnswers ==
    {Answer(kind, NoIndex, FALSE, FALSE) : kind \in {"error", "empty", "unparseable"}}
    \cup {Answer("json", index, TRUE, TRUE) : index \in {NoIndex, -1, 0, 4, 5}}
    \cup {Answer("json", 0, FALSE, TRUE), Answer("json", 0, TRUE, FALSE)}

SuggestInit ==
    /\ aiIn \in {[participants |-> ps, slotDuration |-> 60, dateRangeStart |-> 1,
                   dateRangeEnd |-> lastDay, collaborator |-> answer] :
                    ps \in SuggestParticipants,
                    lastDay \in 0..MaxDay,
                    answer \in CollaboratorAnswers}
    /\ aiOut = NoSuggestion
    /\ aiPc = "call"
    /\ ovIn = Unused /\ ovOut = Unused /\ ovPc = "unused"
    /\ meetings = Unused /\ participantRows = Unused /\ requests = Unused
    /\ response = Unused /\ submissions = 0 /\ notifications = Unused /\ created = 0
    /\ tzIn = Unused /\ tzOut = Unused
    /\ mlIn = Unused /\ mlOut = Unused /\ mlPc = "unused"
    /\ fnIn = Unused /\ fnOut = Unused /\ fnPc = "unused"

GetAISuggestion ==
    /\ aiPc = "call"
    /\ aiOut' = getAISuggestion(aiIn.participants, aiIn.slotDuration, aiIn.dateRangeStart,
                                 aiIn.dateRangeEnd, aiIn.collaborator)
    /\ aiPc' = "done"
    /\ UNCHANGED <<aiIn, ovVars, srvVars, tzVars, mlVars, fnVars>>

SuggestNext == GetAISuggestion

SpecSuggest == SuggestInit /\ [][SuggestNext]_vars

-----------------------------------------------------------------------------
(* Properties of getAISuggestion *)

Universe ==
    generateAllPossibleSlots(aiIn.dateRangeStart, aiIn.dateRangeEnd, aiIn.slotDuration)

SuggestCall == aiPc = "done" /\ Universe # <<>>

AllZonesKnown == \A p \in DOMAIN aiIn.participants : ValidZone(aiIn.participants[p].timezone)

\* C5: whatever the participants' timezone strings, when a candidate exists and
\* the call to the reasoning collaborator fails, getAISuggestion does not
\* throw or reject and returns a non-null suggestion.
C5_CollaboratorFailureYieldsSuggestion ==
    (SuggestCall /\ aiIn.collaborator.kind = "error") => aiOut.kind = "suggestion"

\* the answer names one of the top candidates, which are the first five of the
\* universe or all of it
IndexInRange ==
    aiIn.collaborator.selectedSlotIndex
        \in 0..((IF Len(Universe) < 5 THEN Len(Universe) ELSE 5) - 1)

\* the answers C6 is about: absent or empty, not parseable, or against the schema
MalformedAnswer ==
    \/ aiIn.collaborator.kind \in {"empty", "unparseable"}
    \/ /\ aiIn.collaborator.kind = "json"
       /\ \/ ~IndexInRange
          \/ ~aiIn.collaborator.reasoning
          \/ ~aiIn.collaborator.participantImpact

\* C6: when a candidate exists and the collaborator's answer is absent or
\* empty, not parseable or against the schema, getAISuggestion returns the
\* deterministic fallback: never null, never a suggestion whose reasoning or
\* participantImpact is missing.  (Stated for participants in zones the
\* runtime knows, which are among the claim's cases.)
C6_MalformedAnswerYieldsFallback ==
    (SuggestCall /\ AllZonesKnown /\ MalformedAnswer) =>
        /\ aiOut.kind = "suggestion"
        /\ aiOut.reasoning = FallbackReasoning
        /\ aiOut.impactFrom = "computed"

\* the calls that end in a fallback suggestion
FallbackCase ==
    /\ SuggestCall
    /\ aiOut.kind = "suggestion"
    /\ \/ aiIn.collaborator.kind \in {"error", "unparseable"}
       \/ aiIn.collaborator.kind = "json" /\ ~IndexInRange

\* the tier of a local hour, by the thresholds of the specification
TierOfHour(h) ==
    IF h \in 9..17 THEN "ideal"
    ELSE IF h \in 8..20 THEN "good"
    ELSE IF h \in 6..22 THEN "workable"
    ELSE "difficult"

\* C7: every fallback suggestion (the collaborator failed or named an index out
\* of range) has a suggestedTime whose availableCount is maximal over the whole
\* candidate universe, and a participantImpact with exactly one entry per
\* participant, in participant order, whose inconvenienceLevel is the tier of
\* the slot's start in that participant's zone.
C7_FallbackIsBestByCount ==
    FallbackCase =>
        /\ aiOut.suggestedTime \in SeqRange(Universe)
        /\ \A i \in DOMAIN Universe :
             countAvailableParticipants(Universe[i], aiIn.participants)
                <= countAvailableParticipants(aiOut.suggestedTime, aiIn.participants)
        /\ aiOut.reasoning = FallbackReasoning
        /\ DOMAIN aiOut.participantImpact = DOMAIN aiIn.participants
        /\ \A p \in DOMAIN aiIn.participants :
             /\ aiOut.participantImpact[p].name = aiIn.participants[p].name
             /\ aiOut.participantImpact[p].inconvenienceLevel
                  = TierOfHour(((aiOut.suggestedTime.start
                                    + UtcOffset(aiIn.participants[p].timezone)) \div 60) % 24)

\* C7 witness: the collaborator fails, Alice (UTC) and Bob (Asia/Shanghai) get a
\* fallback slot at which one of them is available, which is not the first
\* slot of the universe
C7_Witness ==
    /\ FallbackCase
    /\ aiIn.collaborator.kind = "error"
    /\ Len(aiIn.participants) = 2
    /\ aiIn.participants[2].timezone = "Asia/Shanghai"
    /\ countAvailableParticipants(aiOut.suggestedTime, aiIn.participants) = 1
    /\ aiOut.suggestedTime # Universe[1]
    /\ aiOut.participantImpact[1].inconvenienceLevel # aiOut.participantImpact[2].inconvenienceLevel

-----------------------------------------------------------------------------
(* The request handlers: src/src/app/api/meetings/route.ts (a meeting is   *)
(* created) and src/unnamed/part_000 (a participant submits availability). *)
(* A handler runs from one database call to the next: each database call   *)
(* with the code behind it is one step, and the steps of different         *)
(* requests interleave.  What follows the last database call (the overlap, *)
(* the suggestion, the mails, the answer) reads and writes nothing another *)
(* request reads, and is taken in one step with that call.                 *)

MeetingIds == {"m1"}
Requests == {"r1", "r2"}

\* the identity fields of a body.  In a meeting creation the email stands for
\* the organizer's name, email and timezone together, NoEmail for a body that
\* lacks one of the three; a submission names each of them
NoEmail == ""
NoName == ""
NoZone == ""
SubmittedNames == {"Ann"}
Emails == {"ann@x", "bob@x"}
ServerZones == {"UTC", "Mars/Phobos"}    \* the organizer's zone
SubmittedZones == {"UTC"}               \* the zone of a submission

\* the status column's default is set by the database schema
DefaultStatus == "ACTIVE"

\* availability of a body: 09:00-10:00 or 10:00-11:00 of day 1
NineOClock == MinutesPerDay + 9 * 60
Availabilities ==
    {<<TimeSlot(NineOClock, NineOClock + 60, NoDay)>>,
     <<TimeSlot(NineOClock + 60, NineOClock + 120, NoDay)>>}

\* the organizer offers 09:00-10:00
OrganizerAvailability == <<TimeSlot(NineOClock, NineOClock + 60, NoDay)>>

\* part_002 605-620 (CreateMeetingForm): the weekly grid of a RECURRING meeting tags each
\* slot with its weekday, the date grid of a ONE_TIME meeting does not
BodySlots(meetingType, availability) ==
    [i \in DOMAIN availability |->
        TimeSlot(availability[i].start, availability[i].end,
            IF meetingType = "RECURRING" THEN getDay(availability[i].start)
            ELSE NoDay)]

NoMeeting ==
    [exists |-> FALSE, expectedParticipants |-> 0, status |-> "", meetingType |-> "",
     slotDuration |-> 0, dateRangeStart |-> 0, dateRangeEnd |-> 0]

\* route.ts 37-62: the row prisma.meeting.create writes
MeetingRow(expectedParticipants, meetingType) ==
    [exists |-> TRUE, expectedParticipants |-> expectedParticipants,
     status |-> DefaultStatus, meetingType |-> meetingType,
     slotDuration |-> 60, dateRangeStart |-> 1, dateRangeEnd |-> 1]

\* a Participant row with its Availability rows; the id is the row's place in
\* the table
ParticipantRow(id, meetingId, email, timezone, availability) ==
    [id |-> id, meetingId |-> meetingId, email |-> email, timezone |-> timezone,
     availability |-> availability]

\* route.ts 54-58: the organizer's slots are stored with their dayOfWeek
OrganizerRows(availability) == availability

\* part_000 67-70 and 86-89: a participant's slots are stored as startTime
\* and endTime alone
SubmittedRows(availability) ==
    [i \in DOMAIN availability |->
        TimeSlot(availability[i].start, availability[i].end, NoDay)]

\* include: { participants: { include: { availability: true } } }
ParticipantsOf(meetingId) ==
    SelectSeq(participantRows, LAMBDA p : p.meetingId = meetingId)

NoSnapshot ==
    [exists |-> FALSE, participants |-> <<>>, expectedParticipants |-> 0,
     slotDuration |-> 0, dateRangeStart |-> 0, dateRangeEnd |-> 0]

\* part_000 33-42 and 99-108: prisma.meeting.findUnique
findUnique(meetingId) ==
    IF ~meetings[meetingId].exists THEN NoSnapshot
    ELSE [exists |-> TRUE, participants |-> ParticipantsOf(meetingId),
          expectedParticipants |-> meetings[meetingId].expectedParticipants,
          slotDuration |-> meetings[meetingId].slotDuration,
          dateRangeStart |-> meetings[meetingId].dateRangeStart,
          dateRangeEnd |-> meetings[meetingId].dateRangeEnd]

\* part_000 52: meeting.participants.find(p => p.email === email), 0 for
\* undefined
NoParticipant == 0
existingParticipant(meeting, email) ==
    LET found == SelectSeq(meeting.participants, LAMBDA p : p.email = email)
    IN  IF found = <<>> THEN NoParticipant ELSE found[1].id

\* a handler that completes whatever it has read
isCompleteAlways(updatedMeeting) == TRUE

\* part_000 118-119
isComplete(updatedMeeting) ==
    Len(updatedMeeting.participants) >= updatedMeeting.expectedParticipants

\* part_000 130-139 and 147-156: the participants handed to the engine and
\* to the selector; the email stands for the name
EngineParticipants(updatedMeeting) ==
    [i \in DOMAIN updatedMeeting.participants |->
        [name |-> updatedMeeting.participants[i].email,
         timezone |-> updatedMeeting.participants[i].timezone,
         availability |->
            [k \in DOMAIN updatedMeeting.participants[i].availability |->
                TimeSlot(updatedMeeting.participants[i].availability[k].start,
                         updatedMeeting.participants[i].availability[k].end, NoDay)]]]

\* the answers of the reasoning collaborator to a request of the server
ServerAnswers ==
    {Answer("error", NoIndex, FALSE, FALSE), Answer("json", 0, TRUE, TRUE)}

\* email.ts 54-110: buildEmailContent formats the slots in the recipient's
\* zone and maps over the suggestion's participantImpact
BuildThrows(recipient, overlapResult, aiSuggestion) ==
    IF overlapResult.hasOverlap
    THEN overlapResult.overlappingSlots # <<>> /\ FormatThrows(recipient.timezone)
    ELSE /\ aiSuggestion.kind = "suggestion"
         /\ \/ FormatThrows(recipient.timezone)
            \/ aiSuggestion.impactFrom = "undefined"

\* email.ts 30-51: the mails sendResultsEmail hands to the transporter
\* before it returns or throws
MailsHandedOver(recipients, overlapResult, aiSuggestion) ==
    LET throwing == {i \in DOMAIN recipients :
                        BuildThrows(recipients[i], overlapResult, aiSuggestion)}
    IN  IF throwing = {} THEN Len(recipients)
        ELSE (CHOOSE i \in throwing : \A j \in throwing : i <= j) - 1

\* email.ts 30-37: buildEmailContent throws for one of the recipients and the
\* call of sendResultsEmail rejects
MailRejects(recipients, overlapResult, aiSuggestion) ==
    \E i \in DOMAIN recipients :
        BuildThrows(recipients[i], overlapResult, aiSuggestion)

\* the answers of the handlers
NoResponse ==
    [status |-> 0, isComplete |-> FALSE, participantsRemaining |-> 0,
     overlap |-> NoResult, aiSuggestion |-> NoSuggestion]

ErrorResponse(status) == [NoResponse EXCEPT !.status = status]

IncompleteResponse(participantsRemaining) ==
    [NoResponse EXCEPT !.status = 200, !.participantsRemaining = participantsRemaining]

CompleteResponse(overlapResult, aiSuggestion) ==
    [status |-> 200, isComplete |-> TRUE, participantsRemaining |-> 0,
     overlap |-> overlapResult, aiSuggestion |-> aiSuggestion]

\* a request slot with no request in flight
Idle ==
    [pc |-> "idle", meetingId |-> "", email |-> NoEmail, timezone |-> "",
     availability |-> <<>>, existingParticipant |-> NoParticipant,
     updatedMeeting |-> NoSnapshot]

InFlight(r) == requests[r].pc # "idle"

Init ==
    /\ meetings = [m \in MeetingIds |-> NoMeeting]
    /\ participantRows = <<>>
    /\ requests = [r \in Requests |-> Idle]
    /\ response = NoResponse
    /\ submissions = 0
    /\ notifications = [m \in MeetingIds |-> [handed |-> 0, failed |-> 0]]
    /\ created = 0
    /\ ovIn = Unused /\ ovOut = Unused /\ ovPc = "unused"
    /\ aiIn = Unused /\ aiOut = Unused /\ aiPc = "unused"
    /\ tzIn = Unused /\ tzOut = Unused
    /\ mlIn = Unused /\ mlOut = Unused /\ mlPc = "unused"
    /\ fnIn = Unused /\ fnOut = Unused /\ fnPc = "unused"

\* route.ts 4-80: POST /api/meetings
CreateMeeting ==
    \E m \in MeetingIds, organizerEmail \in {"ann@x", NoEmail},
       organizerTimezone \in ServerZones,
       availability \in {OrganizerAvailability, <<>>},
       expectedParticipants \in 1..MaxExpected, meetingType \in MeetingTypes,
       stored \in BOOLEAN :
        /\ ~meetings[m].exists
        /\ IF organizerEmail = NoEmail \/ availability = <<>>
           THEN /\ created' = 400
                /\ UNCHANGED <<meetings, participantRows>>
           ELSE IF ~stored
           THEN /\ created' = 500
                /\ UNCHANGED <<meetings, participantRows>>
           ELSE /\ meetings' = [meetings EXCEPT
                        ![m] = MeetingRow(expectedParticipants, meetingType)]
                /\ participantRows' = Append(participantRows,
                        ParticipantRow(Len(participantRows) + 1, m, organizerEmail,
                            organizerTimezone,
                            OrganizerRows(BodySlots(meetingType, availability))))
                /\ created' = 201
        /\ UNCHANGED <<requests, response, submissions, notifications, ovVars, aiVars, tzVars, mlVars, fnVars>>

\* a validation that lets every body pass
MissingFieldsNever(name, email, timezone, availability) == FALSE

\* part_000 15-30: !name || !email || !timezone, then
\* !availability || availability.length === 0
MissingFields(name, email, timezone, availability) ==
    \/ name = NoName \/ email = NoEmail \/ timezone = NoZone
    \/ availability = <<>>

\* part_000 11-30: the body is read and validated
ReceiveSubmission(r) ==
    /\ ~InFlight(r)
    /\ submissions < MaxSubmissions
    /\ submissions' = submissions + 1
    /\ \E m \in MeetingIds, name \in SubmittedNames \cup {NoName}, email \in Emails \cup {NoEmail},
          timezone \in SubmittedZones \cup {NoZone},
          availability \in Availabilities \cup {<<>>} :
        IF MissingFields(name, email, timezone, availability)
        THEN /\ response' = ErrorResponse(400)
             /\ UNCHANGED requests
        ELSE /\ requests' = [requests EXCEPT ![r] =
                    [Idle EXCEPT !.pc = "find", !.meetingId = m, !.email = email,
                                 !.timezone = timezone, !.availability = availability]]
             /\ UNCHANGED response
    /\ UNCHANGED <<meetings, participantRows, notifications, created, ovVars, aiVars, tzVars, mlVars, fnVars>>

\* part_000 33-55: the meeting is looked up, the participant searched by email
FindMeeting(r) ==
    /\ requests[r].pc = "find"
    /\ LET meeting == findUnique(requests[r].meetingId)
       IN  IF ~meeting.exists
           THEN /\ response' = ErrorResponse(404)
                /\ requests' = [requests EXCEPT ![r] = Idle]
           ELSE /\ requests' = [requests EXCEPT ![r] =
                    IF existingParticipant(meeting, requests[r].email) # NoParticipant
                    THEN [@ EXCEPT !.pc = "delete",
                            !.existingParticipant =
                                existingParticipant(meeting, requests[r].email)]
                    ELSE [@ EXCEPT !.pc = "create"]]
                /\ UNCHANGED response
    /\ UNCHANGED <<meetings, participantRows, submissions, notifications, created,
                   ovVars, aiVars, tzVars, mlVars, fnVars>>

\* part_000 57-59: prisma.availability.deleteMany
DeleteAvailability(r) ==
    /\ requests[r].pc = "delete"
    /\ participantRows' = [participantRows EXCEPT
            ![requests[r].existingParticipant].availability = <<>>]
    /\ requests' = [requests EXCEPT ![r].pc = "update"]
    /\ UNCHANGED <<meetings, response, submissions, notifications, created, ovVars, aiVars, tzVars, mlVars, fnVars>>

\* part_000 61-76: prisma.participant.update; the nested create adds the new
\* rows to the rows the participant has
UpdateParticipant(r) ==
    /\ requests[r].pc = "update"
    /\ participantRows' = [participantRows EXCEPT
            ![requests[r].existingParticipant].timezone = requests[r].timezone,
            ![requests[r].existingParticipant].availability =
                @ \o SubmittedRows(requests[r].availability)]
    /\ requests' = [requests EXCEPT ![r].pc = "fetch"]
    /\ UNCHANGED <<meetings, response, submissions, notifications, created, ovVars, aiVars, tzVars, mlVars, fnVars>>

\* part_000 79-95: prisma.participant.create
CreateParticipant(r) ==
    /\ requests[r].pc = "create"
    /\ participantRows' = Append(participantRows,
            ParticipantRow(Len(participantRows) + 1, requests[r].meetingId,
                requests[r].email, requests[r].timezone,
                SubmittedRows(requests[r].availability)))
    /\ requests' = [requests EXCEPT ![r].pc = "fetch"]
    /\ UNCHANGED <<meetings, response, submissions, notifications, created, ovVars, aiVars, tzVars, mlVars, fnVars>>

\* part_000 99-121 and 187-191: the meeting is read again; an incomplete
\* meeting is answered at once
FetchUpdated(r) ==
    /\ requests[r].pc = "fetch"
    /\ LET updatedMeeting == findUnique(requests[r].meetingId)
       IN  IF ~updatedMeeting.exists
           THEN /\ response' = ErrorResponse(500)
                /\ requests' = [requests EXCEPT ![r] = Idle]
           ELSE IF isComplete(updatedMeeting)
           THEN /\ requests' = [requests EXCEPT ![r].pc = "complete",
                                                ![r].updatedMeeting = updatedMeeting]
                /\ UNCHANGED response
           ELSE /\ response' = IncompleteResponse(
                        updatedMeeting.expectedParticipants
                            - Len(updatedMeeting.participants))
                /\ requests' = [requests EXCEPT ![r] = Idle]
    /\ UNCHANGED <<meetings, participantRows, submissions, notifications, created,
                   ovVars, aiVars, tzVars, mlVars, fnVars>>

\* part_000 164-177: sendResultsEmail, whose failure is logged
NotifiedBy(meetingId, updatedMeeting, overlapResult, aiSuggestion) ==
    [notifications EXCEPT ![meetingId] =
        [handed |-> @.handed +
            MailsHandedOver(updatedMeeting.participants, overlapResult, aiSuggestion),
         failed |-> @.failed +
            IF MailRejects(updatedMeeting.participants, overlapResult, aiSuggestion)
            THEN 1 ELSE 0]]

\* an answer that lets the failure of sendResultsEmail reach the outer catch
AnswerAfterMailUncaught(mailRejects, overlapResult, aiSuggestion) ==
    IF mailRejects THEN ErrorResponse(500)
    ELSE CompleteResponse(overlapResult, aiSuggestion)

\* part_000 164-184: the try block around sendResultsEmail catches its
\* failure, and the answer is the same whether the mails went out or not
AnswerAfterMail(mailRejects, overlapResult, aiSuggestion) ==
    CompleteResponse(overlapResult, aiSuggestion)

\* part_000 121-185: the status is written; the overlap is computed from the
\* meeting as it was read (the call names no meeting type); without overlap a
\* suggestion is asked for, whose rejection reaches the outer catch; the
\* results are mailed and the request is answered
CompleteMeeting(r) ==
    /\ requests[r].pc = "complete"
    /\ meetings' = [meetings EXCEPT ![requests[r].meetingId].status = "COMPLETED"]
    /\ requests' = [requests EXCEPT ![r] = Idle]
    /\ \E overlapResult \in
            {calculateOverlap(EngineParticipants(requests[r].updatedMeeting),
                requests[r].updatedMeeting.slotDuration, "ONE_TIME")} :
        IF overlapResult.hasOverlap
        THEN /\ notifications' = NotifiedBy(requests[r].meetingId,
                    requests[r].updatedMeeting, overlapResult, ReturnedNull)
             /\ response' = AnswerAfterMail(
                    MailRejects(requests[r].updatedMeeting.participants,
                                overlapResult, ReturnedNull),
                    overlapResult, ReturnedNull)
        ELSE \E collaborator \in ServerAnswers :
             \E aiSuggestion \in
                {getAISuggestion(EngineParticipants(requests[r].updatedMeeting),
                    requests[r].updatedMeeting.slotDuration,
                    requests[r].updatedMeeting.dateRangeStart,
                    requests[r].updatedMeeting.dateRangeEnd, collaborator)} :
                IF aiSuggestion.kind = "thrown"
                THEN /\ response' = ErrorResponse(500)
                     /\ UNCHANGED notifications
                ELSE /\ notifications' = NotifiedBy(requests[r].meetingId,
                            requests[r].updatedMeeting, overlapResult, aiSuggestion)
                     /\ response' = AnswerAfterMail(
                            MailRejects(requests[r].updatedMeeting.participants,
                                        overlapResult, aiSuggestion),
                            overlapResult, aiSuggestion)
    /\ UNCHANGED <<participantRows, submissions, created, ovVars, aiVars, tzVars, mlVars, fnVars>>

\* part_000 192-198: a database call rejects and the outer catch answers
DatabaseError(r) ==
    /\ requests[r].pc \in {"find", "delete", "update", "create", "fetch", "complete"}
    /\ response' = ErrorResponse(500)
    /\ requests' = [requests EXCEPT ![r] = Idle]
    /\ UNCHANGED <<meetings, participantRows, submissions, notifications, created,
                   ovVars, aiVars, tzVars, mlVars, fnVars>>

Next ==
    \/ CreateMeeting
    \/ \E r \in Requests :
        \/ ReceiveSubmission(r)
        \/ FindMeeting(r)
        \/ DeleteAvailability(r)
        \/ UpdateParticipant(r)
        \/ CreateParticipant(r)
        \/ FetchUpdated(r)
        \/ CompleteMeeting(r)
        \/ DatabaseError(r)

Spec == Init /\ [][Next]_vars

-----------------------------------------------------------------------------
(* Properties of the request handlers *)

NoRequestInFlight == \A r \in Requests : ~InFlight(r)

\* C8: over any sequence of meeting creations and availability submissions,
\* a step sets a meeting's status to COMPLETED only if it is the step of a
\* submission that has read the meeting with participants.length >=
\* expectedParticipants, and no step takes the status of a COMPLETED meeting
\* back to another value.
C8_CompletedOnlyByCompleteSubmission ==
    [][\A m \in MeetingIds :
        /\ (meetings[m].exists /\ meetings[m].status = "COMPLETED")
            => meetings'[m].status = "COMPLETED"
        /\ (meetings[m].status # "COMPLETED" /\ meetings'[m].status = "COMPLETED")
            => \E r \in Requests :
                /\ requests[r].pc = "complete"
                /\ requests'[r].pc = "idle"
                /\ requests[r].meetingId = m
                /\ Len(requests[r].updatedMeeting.participants)
                        >= requests[r].updatedMeeting.expectedParticipants]_vars

\* C8, witness: a meeting that expects two participants has been completed
\* by a submission, which was answered with isComplete
C8_Witness ==
    \E m \in MeetingIds :
        /\ meetings[m].status = "COMPLETED"
        /\ meetings[m].expectedParticipants >= 2
        /\ Len(ParticipantsOf(m)) >= meetings[m].expectedParticipants
        /\ response.isComplete

\* C9: whenever no request is in flight, a meeting is COMPLETED if and only
\* if it has at least expectedParticipants participants; this covers a
\* meeting that is created with expectedParticipants already met by the
\* organizer.
C9_CompletedIffEnoughParticipants ==
    NoRequestInFlight =>
        \A m \in MeetingIds :
            meetings[m].exists =>
                (meetings[m].status = "COMPLETED"
                    <=> Len(ParticipantsOf(m)) >= meetings[m].expectedParticipants)

\* the availability sets as a complete submission stores them
StoredSets ==
    {OrganizerRows(BodySlots(meetingType, OrganizerAvailability)) :
        meetingType \in MeetingTypes}
    \cup {SubmittedRows(availability) : availability \in Availabilities}

\* C10: the meeting as a submission has read it to compute the overlap and
\* the suggestion holds, for every participant, an availability set that a
\* submission stored as a whole: never the empty set a re-submission leaves
\* between its deletion and its creation (or after failing between the two),
\* never a mixture of two submissions.
C10_EngineReadsCompleteAvailability ==
    \A r \in Requests :
        requests[r].pc = "complete" =>
            \A i \in DOMAIN requests[r].updatedMeeting.participants :
                requests[r].updatedMeeting.participants[i].availability \in StoredSets

\* C11: the step in which a submission writes its participant.  For an email
\* that already belongs to a participant of the meeting (the update) the
\* table keeps its length, every other row is unchanged and the slots stored
\* for that participant are exactly the submitted ones; for a new email (the
\* create) the table grows by exactly one row and every row before it is
\* unchanged.
C11_ResubmissionReplacesAvailability ==
    [][\A r \in Requests :
        /\ (requests[r].pc = "update" /\ requests'[r].pc = "fetch")
            => /\ Len(participantRows') = Len(participantRows)
               /\ \A i \in DOMAIN participantRows :
                    i # requests[r].existingParticipant
                        => participantRows'[i] = participantRows[i]
               /\ SeqRange(participantRows'[requests[r].existingParticipant].availability)
                    = SeqRange(SubmittedRows(requests[r].availability))
        /\ (requests[r].pc = "create" /\ requests'[r].pc = "fetch")
            => /\ Len(participantRows') = Len(participantRows) + 1
               /\ \A i \in DOMAIN participantRows :
                    participantRows'[i] = participantRows[i]]_vars

-----------------------------------------------------------------------------
(* Further properties of calculateOverlap *)

OverlapCall == ovPc = "done"

\* C12: for every call of calculateOverlap (no participant, one participant
\* whose availability may be empty, or several; either mode) the result has
\* hasOverlap = true if and only if overlappingSlots is not empty.
C12_HasOverlapIffSlots ==
    OverlapCall => (ovOut.hasOverlap <=> ovOut.overlappingSlots # <<>>)

\* C13: a call with exactly one participant, in either mode and for any
\* slotDuration, returns hasOverlap = true and that participant's
\* availability list as it was passed (same slots, same order, nothing
\* merged); a call with no participant returns hasOverlap = false and the
\* empty list.
C13_OneParticipantGetsOwnList ==
    OverlapCall =>
        /\ Len(ovIn.participants) = 1
            => /\ ovOut.hasOverlap
               /\ ovOut.overlappingSlots = ovIn.participants[1].availability
        /\ Len(ovIn.participants) = 0
            => /\ ~ovOut.hasOverlap
               /\ ovOut.overlappingSlots = <<>>

\* C13, witness: one participant whose list holds a slot followed by a slot
\* that starts earlier and ends where the first begins; the call returned
C13_Witness ==
    /\ OverlapCall
    /\ Len(ovIn.participants) = 1
    /\ \E i \in DOMAIN ovIn.participants[1].availability :
        /\ i > 1
        /\ ovIn.participants[1].availability[i].end
                = ovIn.participants[1].availability[i - 1].start
    /\ ovOut.overlappingSlots = ovIn.participants[1].availability

\* C14: for two or more participants the returned windows are merged to the
\* end: no window ends at the instant at which the next one starts (in
\* RECURRING mode: and carries the same dayOfWeek as the next), so that
\* running the merge loop over the returned list gives the list back.
C14_MergeIsIdempotent ==
    (OverlapCall /\ Len(ovIn.participants) >= 2) =>
        /\ \A i \in DOMAIN ovOut.overlappingSlots :
            i > 1 =>
                ~ /\ ovOut.overlappingSlots[i - 1].end = ovOut.overlappingSlots[i].start
                  /\ ovIn.meetingType = "RECURRING"
                        => ovOut.overlappingSlots[i - 1].dayOfWeek
                                = ovOut.overlappingSlots[i].dayOfWeek
        /\ ovIn.meetingType = "ONE_TIME"
            => MergeLoop(<<>>, ovOut.overlappingSlots) = ovOut.overlappingSlots
        /\ ovIn.meetingType = "RECURRING"
            => RecurringMergeLoop(<<>>, ovOut.overlappingSlots) = ovOut.overlappingSlots

\* C14, witness: a call for two participants returned a window that the
\* merge made of more than one retained slot
C14_Witness ==
    /\ OverlapCall
    /\ Len(ovIn.participants) >= 2
    /\ \E i \in DOMAIN ovOut.overlappingSlots :
        ovOut.overlappingSlots[i].end - ovOut.overlappingSlots[i].start
            > ovIn.slotDuration

-----------------------------------------------------------------------------
(* The calls of the zone operations that are checked: getLocalHour,        *)
(* getInconvenienceLevel (part_001 208-227) and formatSlotInTimezone       *)
(* (overlap.ts 138-171), each applied to one instant and one zone.         *)

\* the instants: every half hour of day 1 (UTC)
ZoneMinutes == {0, 30}
ZoneInstants == {MinutesPerDay + h * 60 + m : h \in 0..23, m \in ZoneMinutes}

ZoneSlot == TimeSlot(tzIn.date, tzIn.date + 60, NoDay)

ZoneInit ==
    /\ tzIn \in {[date |-> t, timezone |-> z] : t \in ZoneInstants, z \in Zones}
    /\ tzOut = [called |-> {}, localHour |-> 0, level |-> "", threw |-> FALSE,
                label |-> [startTime |-> 0, endTime |-> 0]]
    /\ ovIn = Unused /\ ovOut = Unused /\ ovPc = "unused"
    /\ aiIn = Unused /\ aiOut = Unused /\ aiPc = "unused"
    /\ meetings = Unused /\ participantRows = Unused /\ requests = Unused
    /\ response = Unused /\ submissions = 0 /\ notifications = Unused /\ created = 0
    /\ mlIn = Unused /\ mlOut = Unused /\ mlPc = "unused"
    /\ fnIn = Unused /\ fnOut = Unused /\ fnPc = "unused"

GetLocalHour ==
    /\ "getLocalHour" \notin tzOut.called
    /\ tzOut' = [tzOut EXCEPT !.called = @ \cup {"getLocalHour"},
                              !.localHour = getLocalHour(tzIn.date, tzIn.timezone)]
    /\ UNCHANGED <<tzIn, ovVars, aiVars, srvVars, mlVars, fnVars>>

GetInconvenienceLevel ==
    /\ "getInconvenienceLevel" \notin tzOut.called
    /\ tzOut' = [tzOut EXCEPT !.called = @ \cup {"getInconvenienceLevel"},
                              !.level = getInconvenienceLevel(ZoneSlot, tzIn.timezone)]
    /\ UNCHANGED <<tzIn, ovVars, aiVars, srvVars, mlVars, fnVars>>

\* the call returns the labels or ends with the RangeError
FormatSlotInTimezone ==
    /\ "formatSlotInTimezone" \notin tzOut.called
    /\ tzOut' = IF FormatThrows(tzIn.timezone)
                THEN [tzOut EXCEPT !.called = @ \cup {"formatSlotInTimezone"},
                                   !.threw = TRUE]
                ELSE [tzOut EXCEPT !.called = @ \cup {"formatSlotInTimezone"},
                                   !.label = formatSlotInTimezone(ZoneSlot, tzIn.timezone)]
    /\ UNCHANGED <<tzIn, ovVars, aiVars, srvVars, mlVars, fnVars>>

ZoneNext == GetLocalHour \/ GetInconvenienceLevel \/ FormatSlotInTimezone

SpecZone == ZoneInit /\ [][ZoneNext]_vars

-----------------------------------------------------------------------------
(* Properties of the zone operations *)

\* the hour of the instant on the wall clock of a zone the runtime knows
WallClockHour == ((tzIn.date + UtcOffset(tzIn.timezone)) \div 60) % 24

LevelCall == "getInconvenienceLevel" \in tzOut.called /\ ValidZone(tzIn.timezone)

\* C15: for every instant and every zone with a local hour h in 0..23,
\* getInconvenienceLevel returns the one tier that the inclusive thresholds
\* give h: ideal iff 9 <= h <= 17; good iff 8 <= h <= 20 and not ideal;
\* workable iff 6 <= h <= 22 and neither; difficult otherwise.
C15_TierByInclusiveThresholds ==
    LevelCall =>
        /\ WallClockHour \in 0..23
        /\ tzOut.level = "ideal" <=> (9 <= WallClockHour /\ WallClockHour <= 17)
        /\ tzOut.level = "good"
            <=> /\ 8 <= WallClockHour /\ WallClockHour <= 20
                /\ ~(9 <= WallClockHour /\ WallClockHour <= 17)
        /\ tzOut.level = "workable"
            <=> /\ 6 <= WallClockHour /\ WallClockHour <= 22
                /\ ~(8 <= WallClockHour /\ WallClockHour <= 20)
        /\ tzOut.level = "difficult"
            <=> ~(6 <= WallClockHour /\ WallClockHour <= 22)

\* C15, witness: the level of an instant whose local hour is 22, the last
\* workable hour, in a zone ahead of UTC
C15_Witness ==
    /\ LevelCall
    /\ tzIn.timezone = "Asia/Shanghai"
    /\ WallClockHour = 22
    /\ tzOut.level = "workable"

\* the examples of the specification
ExampleTiers ==
    [h \in {13, 7, 5, 21, 17, 18} |->
        IF h \in {13, 17} THEN "ideal"
        ELSE IF h \in {7, 18} THEN "good"
        ELSE IF h = 21 THEN "workable"
        ELSE "difficult"]

\* C16: local hour 13 is ideal, 7 is good, 5 is difficult, 21 is workable,
\* the boundary hour 17 is ideal and 18 is good.
C16_ExampleHours ==
    (LevelCall /\ WallClockHour \in DOMAIN ExampleTiers)
        => tzOut.level = ExampleTiers[WallClockHour]

\* the examples with hour 7 in the tier the thresholds give it
ThresholdTiers == [ExampleTiers EXCEPT ![7] = "workable"]

\* C16, as the code has it: local hour 13 is ideal, 7 is workable (it lies in
\* 6..22 and below 8), 5 is difficult, 21 is workable, the boundary hour 17
\* is ideal and 18 is good.
C16_ExampleHoursByThresholds ==
    (LevelCall /\ WallClockHour \in DOMAIN ThresholdTiers)
        => tzOut.level = ThresholdTiers[WallClockHour]

\* C16, witness: the level of an instant whose local hour is 7
C16_Witness ==
    /\ LevelCall
    /\ WallClockHour = 7
    /\ tzOut.level = "workable"

-----------------------------------------------------------------------------
(* Further properties of getAISuggestion *)

\* C17: when the date range holds no calendar day (dateRangeEnd lies before
\* dateRangeStart) getAISuggestion returns null, whatever the reasoning
\* collaborator would answer: it raises nothing and does not consult it.
C17_EmptyRangeYieldsNull ==
    (aiPc = "done" /\ aiIn.dateRangeEnd < aiIn.dateRangeStart)
        => aiOut.kind = "null"

-----------------------------------------------------------------------------
(* The calls of sendResultsEmail that are checked: email.ts 20-52.  One    *)
(* step is one pass of the loop over the recipients.                       *)

MailZones == {"UTC", "Mars/Phobos"}

MailSlot == TimeSlot(NineOClock, NineOClock + 60, NoDay)

\* the results to be mailed: a common slot; a suggestion with the impact on
\* each participant; a suggestion whose participantImpact the collaborator
\* left out; neither overlap nor suggestion
MailResults ==
    {[overlapResult |-> [hasOverlap |-> TRUE, overlappingSlots |-> <<MailSlot>>,
                         none |-> FALSE],
      aiSuggestion |-> ReturnedNull]}
    \cup {[overlapResult |-> [hasOverlap |-> FALSE, overlappingSlots |-> <<>>,
                              none |-> FALSE],
           aiSuggestion |-> ai] :
            ai \in {Returned(MailSlot, FallbackReasoning, "computed", <<>>),
                    Returned(MailSlot, "collaborator", "undefined", <<>>),
                    ReturnedNull}}

MailRecipients ==
    UNION {[1..n -> [email : Emails, timezone : MailZones]] : n \in 1..MaxRecipients}

MailInit ==
    /\ mlIn \in UNION {{[participants |-> ps, overlapResult |-> res.overlapResult,
                         aiSuggestion |-> res.aiSuggestion, rejected |-> rejected] :
                            res \in MailResults, rejected \in SUBSET DOMAIN ps} :
                        ps \in MailRecipients}
    /\ mlOut = [next |-> 1, attempts |-> <<>>, logged |-> <<>>, ended |-> ""]
    /\ mlPc = "loop"
    /\ ovIn = Unused /\ ovOut = Unused /\ ovPc = "unused"
    /\ aiIn = Unused /\ aiOut = Unused /\ aiPc = "unused"
    /\ meetings = Unused /\ participantRows = Unused /\ requests = Unused
    /\ response = Unused /\ submissions = 0 /\ notifications = Unused /\ created = 0
    /\ tzIn = Unused /\ tzOut = Unused
    /\ fnIn = Unused /\ fnOut = Unused /\ fnPc = "unused"

\* email.ts 30-50: the content is built outside the try block, so that what
\* buildEmailContent throws ends the call; a rejection of sendMail is logged
SendToNextRecipient ==
    /\ mlPc = "loop"
    /\ mlOut.next <= Len(mlIn.participants)
    /\ IF BuildThrows(mlIn.participants[mlOut.next], mlIn.overlapResult, mlIn.aiSuggestion)
       THEN /\ mlOut' = [mlOut EXCEPT !.ended = "thrown"]
            /\ mlPc' = "done"
       ELSE /\ mlOut' = [mlOut EXCEPT
                    !.next = @ + 1,
                    !.attempts = Append(@, mlOut.next),
                    !.logged = IF mlOut.next \in mlIn.rejected
                               THEN Append(@, mlOut.next) ELSE @]
            /\ mlPc' = "loop"
    /\ UNCHANGED <<mlIn, ovVars, aiVars, srvVars, tzVars, fnVars>>

\* email.ts 51-52: the loop is over
ReturnFromSend ==
    /\ mlPc = "loop"
    /\ mlOut.next > Len(mlIn.participants)
    /\ mlOut' = [mlOut EXCEPT !.ended = "returned"]
    /\ mlPc' = "done"
    /\ UNCHANGED <<mlIn, ovVars, aiVars, srvVars, tzVars, fnVars>>

MailNext == SendToNextRecipient \/ ReturnFromSend

SpecMail == MailInit /\ [][MailNext]_vars

-----------------------------------------------------------------------------
(* Properties of sendResultsEmail *)

\* C18: every call of sendResultsEmail ends by returning, never by raising,
\* and has then attempted one delivery to each recipient, in list order,
\* also to the recipients that follow one whose delivery failed.
C18_EveryRecipientAttemptedOnce ==
    mlPc = "done" =>
        /\ mlOut.ended = "returned"
        /\ mlOut.attempts = [i \in 1..Len(mlIn.participants) |-> i]

-----------------------------------------------------------------------------
(* Further properties of the submission handler *)

\* the step of request r in which sendResultsEmail failed and was logged
MailFailedIn(r) ==
    /\ requests[r].pc = "complete"
    /\ requests'[r].pc = "idle"
    /\ notifications'[requests[r].meetingId].failed
            = notifications[requests[r].meetingId].failed + 1

\* C19: when the notification fails as a whole during the submission that
\* completes a meeting, the submission is answered with status 200,
\* isComplete = true and the overlap computed from the meeting as read, the
\* meeting is COMPLETED afterwards and the stored participants are untouched.
C19_MailFailureKeepsResult ==
    [][\A r \in Requests :
        MailFailedIn(r) =>
            /\ response'.status = 200
            /\ response'.isComplete
            /\ response'.overlap =
                    calculateOverlap(EngineParticipants(requests[r].updatedMeeting),
                        requests[r].updatedMeeting.slotDuration, "ONE_TIME")
            /\ response'.participantsRemaining = 0
            /\ meetings'[requests[r].meetingId].status = "COMPLETED"
            /\ participantRows' = participantRows]_vars

\* C19: a completing submission whose notification failed has been answered
\* with the overlap, and the meeting is COMPLETED with its participants stored
C19_Witness ==
    /\ NoRequestInFlight
    /\ \E m \in MeetingIds :
        /\ notifications[m].failed > 0
        /\ notifications[m].handed = 0
        /\ meetings[m].status = "COMPLETED"
        /\ Len(ParticipantsOf(m)) >= meetings[m].expectedParticipants
    /\ response.status = 200
    /\ response.isComplete
    /\ response.overlap.hasOverlap
    /\ response.overlap.overlappingSlots # <<>>


\* C20: for a timezone name the runtime does not know, no zone operation
\* raises: formatSlotInTimezone returns its labels, getLocalHour returns the
\* hour 0..23 of the instant taken without a zone, and getInconvenienceLevel
\* returns one of the four tiers.
C20_UnknownZoneNeverRaises ==
    ~ValidZone(tzIn.timezone) =>
        /\ ~tzOut.threw
        /\ "getLocalHour" \in tzOut.called =>
                /\ tzOut.localHour \in 0..23
                /\ tzOut.localHour = (tzIn.date \div 60) % 24
        /\ "getInconvenienceLevel" \in tzOut.called =>
                tzOut.level \in {"ideal", "good", "workable", "difficult"}


-----------------------------------------------------------------------------
(* getTopOverlappingSlots: overlap.ts 173-186 *)

\* a comparator that looks at the start only
TopCompareByStart(a, b) == a.start - b.start

\* overlap.ts 179-183: the comparator of the sort, by duration (longest
\* first), then by start
TopCompare(a, b) ==
    LET durationA == a.end - a.start
        durationB == b.end - b.start
    IN  IF durationB # durationA THEN durationB - durationA
        ELSE a.start - b.start

\* Array.prototype.sort is stable: a slot goes behind those it does not precede
RECURSIVE InsertTop(_, _)
InsertTop(x, sorted) ==
    IF sorted = <<>> THEN <<x>>
    ELSE IF TopCompare(x, Head(sorted)) < 0 THEN <<x>> \o sorted
    ELSE <<Head(sorted)>> \o InsertTop(x, Tail(sorted))

RECURSIVE SortTop(_, _)
SortTop(sorted, rest) ==
    IF rest = <<>> THEN sorted
    ELSE SortTop(InsertTop(Head(rest), sorted), Tail(rest))

\* slice(0, limit) for a limit >= 0
SliceFromStart(array, limit) ==
    SubSeq(array, 1, IF limit < Len(array) THEN limit ELSE Len(array))

\* overlap.ts 173-186: a copy of the list is sorted and cut
getTopOverlappingSlots(overlappingSlots, limit) ==
    SliceFromStart(SortTop(<<>>, overlappingSlots), limit)

\* the slots handed to the calls that are checked
TopStarts == {0, 30}
TopDurations == {30, 60, 90}
TopSlots == {TimeSlot(t, t + d, NoDay) : t \in TopStarts, d \in TopDurations}

TopInit ==
    /\ fnIn \in [overlappingSlots : SeqsUpTo(TopSlots, MaxTopSlots), limit : 0..MaxLimit]
    /\ fnOut = [returned |-> <<>>, overlappingSlots |-> <<>>]
    /\ fnPc = "call"
    /\ ovIn = Unused /\ ovOut = Unused /\ ovPc = "unused"
    /\ aiIn = Unused /\ aiOut = Unused /\ aiPc = "unused"
    /\ meetings = Unused /\ participantRows = Unused /\ requests = Unused
    /\ response = Unused /\ submissions = 0 /\ notifications = Unused /\ created = 0
    /\ tzIn = Unused /\ tzOut = Unused
    /\ mlIn = Unused /\ mlOut = Unused /\ mlPc = "unused"

\* the call; the sort works on the copy [...overlappingSlots], the caller's
\* array is as it was
GetTopOverlappingSlots ==
    /\ fnPc = "call"
    /\ fnOut' = [returned |-> getTopOverlappingSlots(fnIn.overlappingSlots, fnIn.limit),
                 overlappingSlots |-> fnIn.overlappingSlots]
    /\ fnPc' = "done"
    /\ UNCHANGED <<fnIn, ovVars, aiVars, srvVars, tzVars, mlVars>>

TopNext == GetTopOverlappingSlots

SpecTop == TopInit /\ [][TopNext]_vars

-----------------------------------------------------------------------------
(* Properties of getTopOverlappingSlots *)

\* the number of entries of a list that equal a slot
Occurrences(list, slot) == Cardinality({i \in DOMAIN list : list[i] = slot})

\* a is longer than b, or as long and earlier
RanksAbove(a, b) ==
    \/ a.end - a.start > b.end - b.start
    \/ a.end - a.start = b.end - b.start /\ a.start < b.start

\* C21: for every slot list and every limit >= 0, getTopOverlappingSlots
\* returns min(limit, number of slots) slots; they are entries of the input,
\* in descending order of duration and, among equal durations, ascending
\* order of start, and no entry left out ranks above one that is returned;
\* the list handed in is in its original order after the call.
C21_TopSlotsArePrefixOfRanking ==
    fnPc = "done" =>
        LET returned == fnOut.returned
            given == fnIn.overlappingSlots
        IN  /\ Len(returned) = IF fnIn.limit < Len(given) THEN fnIn.limit ELSE Len(given)
            /\ \A slot \in SeqRange(returned) :
                    Occurrences(returned, slot) <= Occurrences(given, slot)
            /\ \A i \in 1..(Len(returned) - 1) : ~RanksAbove(returned[i + 1], returned[i])
            /\ \A slot \in SeqRange(given) :
                    Occurrences(returned, slot) < Occurrences(given, slot)
                        => \A i \in DOMAIN returned : ~RanksAbove(slot, returned[i])
            /\ fnOut.overlappingSlots = given

\* C21: the list with durations 30, 90, 60 is returned as 90, 60, 30, and a
\* limit below the length has cut a list that was not in ranking order
C21_Witness ==
    /\ fnPc = "done"
    /\ fnIn.overlappingSlots = <<TimeSlot(0, 30, NoDay), TimeSlot(30, 120, NoDay),
                                 TimeSlot(0, 60, NoDay)>>
    /\ fnIn.limit = 2
    /\ fnOut.returned = <<TimeSlot(30, 120, NoDay), TimeSlot(0, 60, NoDay)>>


\* the step in which a body is received and answered at once: no request is
\* in flight for it afterwards
RejectedAtOnce ==
    /\ submissions' = submissions + 1
    /\ requests' = requests

\* the step in which request r learns that its meeting does not exist
LooksUpUnknownMeeting(r) ==
    /\ requests[r].pc = "find"
    /\ ~meetings[requests[r].meetingId].exists
    /\ requests'[r] # requests[r]

\* C22: a submission without name, email or timezone or without a non-empty
\* availability never gets past the validation and is answered with status
\* 400; a submission for a meeting that does not exist is answered with 404
\* (500 if the lookup itself fails) and goes no further; in each case the
\* step leaves the meetings, their status, the participants with their
\* availability and the notifications as they were and answers without an
\* overlap result.
C22_InvalidSubmissionChangesNothing ==
    [][/\ RejectedAtOnce =>
                /\ response' = ErrorResponse(400)
                /\ UNCHANGED <<meetings, participantRows, notifications>>
       /\ \A r \in Requests :
        /\ InFlight(r)' =>
                /\ requests'[r].email # NoEmail
                /\ requests'[r].timezone # NoZone
                /\ requests'[r].availability # <<>>
        /\ LooksUpUnknownMeeting(r) =>
                /\ requests'[r] = Idle
                /\ response' \in {ErrorResponse(404), ErrorResponse(500)}
                /\ UNCHANGED <<meetings, participantRows, notifications>>]_vars

\* C22: the second submission to an open meeting has been answered with 400,
\* and the meeting has its organizer only, is ACTIVE and has sent no mail
C22_Witness ==
    /\ response = ErrorResponse(400)
    /\ submissions = 2
    /\ NoRequestInFlight
    /\ Len(participantRows) = 1
    /\ \A m \in MeetingIds :
        /\ meetings[m].exists
        /\ meetings[m].status = "ACTIVE"
        /\ notifications[m].handed = 0


\* the participants of a meeting as read, each slot with the dayOfWeek its
\* row holds
StoredParticipants(updatedMeeting) ==
    [i \in DOMAIN updatedMeeting.participants |->
        [name |-> updatedMeeting.participants[i].email,
         timezone |-> updatedMeeting.participants[i].timezone,
         availability |-> updatedMeeting.participants[i].availability]]

\* C23: the submission that completes a RECURRING meeting answers with the
\* overlap computed in RECURRING mode from the stored slots with their
\* dayOfWeek (matching by weekday, UTC hour and UTC minute), and every
\* stored availability row of the meeting holds the dayOfWeek that was
\* submitted with it, the weekday of its start.
C23_RecurringCompletionUsesWeekdays ==
    [][\A r \in Requests :
        (/\ requests[r].pc = "complete"
         /\ requests'[r] = Idle
         /\ response'.isComplete
         /\ meetings[requests[r].meetingId].meetingType = "RECURRING")
        => /\ response'.overlap =
                calculateOverlap(StoredParticipants(requests[r].updatedMeeting),
                    requests[r].updatedMeeting.slotDuration, "RECURRING")
           /\ \A i \in DOMAIN participantRows :
                participantRows[i].meetingId = requests[r].meetingId =>
                    \A k \in DOMAIN participantRows[i].availability :
                        participantRows[i].availability[k].dayOfWeek
                            = getDay(participantRows[i].availability[k].start)]_vars


-----------------------------------------------------------------------------
(* The candidate ranking of getAISuggestion, part_001 19-41, by itself *)

RankZones == {"UTC", "Asia/Shanghai", "Mars/Phobos"}

\* availability lists: 20:00-21:00 of day 1; 09:00-11:00 of day 1
RankLists ==
    {<<TimeSlot(MinutesPerDay + 20 * 60, MinutesPerDay + 21 * 60, NoDay)>>,
     <<TimeSlot(MinutesPerDay + 9 * 60, MinutesPerDay + 11 * 60, NoDay)>>}

RankParticipants ==
    UNION {{[p \in 1..n |-> [name |-> Names[p], timezone |-> choice[p][1],
                             availability |-> choice[p][2]]] :
                choice \in [1..n -> RankZones \X RankLists]} :
            n \in 1..MaxRanked}

\* the ranges day 1 .. day 0, day 1 .. day 1 and day 1 .. day 2
RankLastDays == {0, 1, 2}

\* the universe of a range of two days has 26 or 52 candidates
RankDurations == {30, 60}

RankInit ==
    /\ fnIn \in [participants : RankParticipants, slotDuration : RankDurations,
                 dateRangeStart : {1}, dateRangeEnd : RankLastDays]
    /\ fnOut = [allPossibleSlots |-> <<>>, scoredSlots |-> <<>>, topCandidates |-> <<>>]
    /\ fnPc = "call"
    /\ ovIn = Unused /\ ovOut = Unused /\ ovPc = "unused"
    /\ aiIn = Unused /\ aiOut = Unused /\ aiPc = "unused"
    /\ meetings = Unused /\ participantRows = Unused /\ requests = Unused
    /\ response = Unused /\ submissions = 0 /\ notifications = Unused /\ created = 0
    /\ tzIn = Unused /\ tzOut = Unused
    /\ mlIn = Unused /\ mlOut = Unused /\ mlPc = "unused"

\* part_001 19-41: the universe is generated, scored, sorted and cut
RankCandidates ==
    /\ fnPc = "call"
    /\ fnOut' = [allPossibleSlots |->
                    generateAllPossibleSlots(fnIn.dateRangeStart, fnIn.dateRangeEnd,
                                             fnIn.slotDuration),
                 scoredSlots |->
                    ScoredSlots(fnIn.participants, fnIn.slotDuration,
                                fnIn.dateRangeStart, fnIn.dateRangeEnd),
                 topCandidates |->
                    TopCandidates(fnIn.participants, fnIn.slotDuration,
                                  fnIn.dateRangeStart, fnIn.dateRangeEnd)]
    /\ fnPc' = "done"
    /\ UNCHANGED <<fnIn, ovVars, aiVars, srvVars, tzVars, mlVars>>

RankNext == RankCandidates

SpecRank == RankInit /\ [][RankNext]_vars

-----------------------------------------------------------------------------
(* Properties of the candidate ranking *)

\* the participants of the call that are available for a slot
AvailableFor(slot) ==
    {p \in DOMAIN fnIn.participants :
        \E i \in DOMAIN fnIn.participants[p].availability :
            /\ slot.start >= fnIn.participants[p].availability[i].start
            /\ slot.end <= fnIn.participants[p].availability[i].end}

\* candidate a comes before candidate b in the ranking
Outranks(a, b) ==
    \/ a.availableCount > b.availableCount
    \/ a.availableCount = b.availableCount /\ a.score > b.score

\* the scored candidate of a slot of the universe
ScoredAs(slot) ==
    CHOOSE c \in SeqRange(fnOut.scoredSlots) : c.slot = slot

\* the slots of the universe that are not among the top candidates
LeftOut ==
    SeqRange(fnOut.allPossibleSlots)
        \ {fnOut.topCandidates[i].slot : i \in DOMAIN fnOut.topCandidates}

LocalHourOf(slot, p) ==
    IF ValidZone(fnIn.participants[p].timezone)
    THEN ((slot.start + UtcOffset(fnIn.participants[p].timezone)) \div 60) % 24
    ELSE (slot.start \div 60) % 24

\* the participants whose local hour at the start of the slot is in lo .. hi
HourWithin(slot, lo, hi) ==
    {p \in DOMAIN fnIn.participants : lo <= LocalHourOf(slot, p) /\ LocalHourOf(slot, p) <= hi}

\* C25: for every candidate and every participant list of size N, the score
\* is 10 times the number of participants with an availability entry that
\* contains the slot (the availableCount of the candidate) plus, for each of
\* the N participants, 5 if the local hour is in 9..17, else 3 if in 8..20,
\* else 1 if in 6..22, else 0, where the local hour of a participant in an
\* unrecognized zone is the unzoned hour of the instant; so the score lies
\* between 10 * availableCount and 10 * availableCount + 5 * N.
C25_ScoreIsAvailabilityPlusHours ==
    fnPc = "done" =>
        \A i \in DOMAIN fnOut.scoredSlots :
            LET c == fnOut.scoredSlots[i]
                N == Len(fnIn.participants)
                ideal == HourWithin(c.slot, 9, 17)
                good == HourWithin(c.slot, 8, 20) \ ideal
                workable == HourWithin(c.slot, 6, 22) \ (ideal \cup good)
            IN  /\ c.availableCount = Cardinality(AvailableFor(c.slot))
                /\ c.score = 10 * Cardinality(AvailableFor(c.slot))
                                + 5 * Cardinality(ideal) + 3 * Cardinality(good)
                                + Cardinality(workable)
                /\ 10 * c.availableCount <= c.score
                /\ c.score <= 10 * c.availableCount + 5 * N



-----------------------------------------------------------------------------
(* generateAllPossibleSlots, part_001 141-161, as getAISuggestion calls it *)

\* the participants of the call: none of them offers a slot, or the first
\* offers 09:00-11:00 of day 1
UniverseParticipants ==
    {<<[name |-> Names[1], timezone |-> "UTC", availability |-> list]>> :
        list \in {<<>>, <<TimeSlot(MinutesPerDay + 9 * 60, MinutesPerDay + 11 * 60, NoDay)>>}}

UniverseInit ==
    /\ fnIn \in [participants : UniverseParticipants, slotDuration : SlotDurations,
                 dateRangeStart : 0..MaxDay, dateRangeEnd : 0..MaxDay]
    /\ fnOut = <<>>
    /\ fnPc = "call"
    /\ ovIn = Unused /\ ovOut = Unused /\ ovPc = "unused"
    /\ aiIn = Unused /\ aiOut = Unused /\ aiPc = "unused"
    /\ meetings = Unused /\ participantRows = Unused /\ requests = Unused
    /\ response = Unused /\ submissions = 0 /\ notifications = Unused /\ created = 0
    /\ tzIn = Unused /\ tzOut = Unused
    /\ mlIn = Unused /\ mlOut = Unused /\ mlPc = "unused"

\* part_001 19-23: the call, which is handed the range and the duration
GenerateAllPossibleSlots ==
    /\ fnPc = "call"
    /\ fnOut' = generateAllPossibleSlots(fnIn.dateRangeStart, fnIn.dateRangeEnd,
                                         fnIn.slotDuration)
    /\ fnPc' = "done"
    /\ UNCHANGED <<fnIn, ovVars, aiVars, srvVars, tzVars, mlVars>>

UniverseNext == GenerateAllPossibleSlots

SpecUniverse == UniverseInit /\ [][UniverseNext]_vars

-----------------------------------------------------------------------------
(* Properties of generateAllPossibleSlots *)

\* the slots the claim gives one calendar day for duration d
ClaimedDaySlots(day, d) ==
    {TimeSlot(day * MinutesPerDay + hour * 60 + minute,
              day * MinutesPerDay + hour * 60 + minute + d, NoDay) :
        hour \in 8..20, minute \in {m \in 0..59 : m % d = 0}}

\* C26: for slotDuration d in {15, 30, 60} and every calendar day of
\* rangeStart .. rangeEnd inclusive, the slots of the universe that start on
\* that day are exactly the 13 * (60 / d) slots that start at hour 8..20 and
\* minute 0, d, 2d, .. below 60, each once; every slot ends d minutes after
\* its start and none starts before 08:00 or at or after 21:00; the universe
\* is the same whatever the participants have submitted.
C26_UniverseByDay ==
    fnPc = "done" =>
        LET d == fnIn.slotDuration
            StartingOn(day) == {i \in DOMAIN fnOut : fnOut[i].start \div MinutesPerDay = day}
        IN  /\ \A day \in fnIn.dateRangeStart..fnIn.dateRangeEnd :
                /\ {fnOut[i] : i \in StartingOn(day)} = ClaimedDaySlots(day, d)
                /\ Cardinality(StartingOn(day)) = 13 * (60 \div d)
            /\ \A i \in DOMAIN fnOut :
                /\ fnOut[i].end = fnOut[i].start + d
                /\ (fnOut[i].start % MinutesPerDay) >= 8 * 60
                /\ (fnOut[i].start % MinutesPerDay) < 21 * 60

\* C26: the universe of a range of two days and slots of 15 minutes has been
\* generated for a participant with availability: 104 slots, from 08:00 of
\* the first day to 20:45 of the second
C26_Witness ==
    /\ fnPc = "done"
    /\ fnIn.slotDuration = 15
    /\ fnIn.dateRangeStart = 1 /\ fnIn.dateRangeEnd = 2
    /\ fnIn.participants[1].availability # <<>>
    /\ Len(fnOut) = 104
    /\ fnOut[1].start = MinutesPerDay + 8 * 60
    /\ fnOut[104].start = 2 * MinutesPerDay + 20 * 60 + 45


-----------------------------------------------------------------------------
(* The loops of generateAllPossibleSlots, part_001 149-158, step by step.  *)
(* The array of slots is kept as the number of its entries, counted       *)
(* modulo MaxCounted, which no loop condition reads; a minute below        *)
(* -MaxBelowZero is kept as -MaxBelowZero, which the loop condition        *)
(* minute < 60 does not tell from the minute itself.                       *)

\* the slotDuration column is an integer: parseInt(slotDuration) of the
\* creation body, route.ts 46, with no check of its sign
LoopDurations == {-15, 0, 15, 30, 60}

LoopInit ==
    /\ fnIn \in [dateRangeStart : {1}, dateRangeEnd : 0..MaxDay, slotDuration : LoopDurations]
    /\ fnOut = [day |-> 1, hour |-> 8, minute |-> 0, slots |-> 0]
    /\ fnPc = "day"
    /\ ovIn = Unused /\ ovOut = Unused /\ ovPc = "unused"
    /\ aiIn = Unused /\ aiOut = Unused /\ aiPc = "unused"
    /\ meetings = Unused /\ participantRows = Unused /\ requests = Unused
    /\ response = Unused /\ submissions = 0 /\ notifications = Unused /\ created = 0
    /\ tzIn = Unused /\ tzOut = Unused
    /\ mlIn = Unused /\ mlOut = Unused /\ mlPc = "unused"

\* line 149: for (const day of days); after the last day the slots are returned
NextDay ==
    /\ fnPc = "day"
    /\ IF fnOut.day <= Len(eachDayOfInterval(fnIn.dateRangeStart, fnIn.dateRangeEnd))
       THEN /\ fnOut' = [fnOut EXCEPT !.hour = 8]
            /\ fnPc' = "hour"
       ELSE /\ fnOut' = fnOut
            /\ fnPc' = "done"
    /\ UNCHANGED <<fnIn, ovVars, aiVars, srvVars, tzVars, mlVars>>

\* line 151: for (let hour = 8; hour < 21; hour++)
NextHour ==
    /\ fnPc = "hour"
    /\ IF fnOut.hour < 21
       THEN /\ fnOut' = [fnOut EXCEPT !.minute = 0]
            /\ fnPc' = "minute"
       ELSE /\ fnOut' = [fnOut EXCEPT !.day = @ + 1]
            /\ fnPc' = "day"
    /\ UNCHANGED <<fnIn, ovVars, aiVars, srvVars, tzVars, mlVars>>

\* lines 152-156: for (let minute = 0; minute < 60; minute += slotDuration)
\* with slots.push in its body
PushSlot ==
    /\ fnPc = "minute"
    /\ IF fnOut.minute < 60
       THEN /\ fnOut' = [fnOut EXCEPT
                    !.slots = (@ + 1) % MaxCounted,
                    !.minute = IF @ + fnIn.slotDuration < -MaxBelowZero
                               THEN -MaxBelowZero
                               ELSE @ + fnIn.slotDuration]
            /\ fnPc' = "minute"
       ELSE /\ fnOut' = [fnOut EXCEPT !.hour = @ + 1]
            /\ fnPc' = "hour"
    /\ UNCHANGED <<fnIn, ovVars, aiVars, srvVars, tzVars, mlVars>>

LoopNext == NextDay \/ NextHour \/ PushSlot

\* the function runs on until it returns
SpecLoopFair == LoopInit /\ [][LoopNext]_vars /\ WF_vars(LoopNext)

-----------------------------------------------------------------------------
(* Termination of the candidate enumeration *)

\* C27: for every integer slotDuration a stored meeting can carry, zero and
\* negative values included, the candidate enumeration of
\* generateAllPossibleSlots comes to its end, so that getAISuggestion returns.
C27_EnumerationTerminates == <>(fnPc = "done")


-----------------------------------------------------------------------------
(* Further properties of the stored participants *)

\* C28: after any sequence or interleaving of submissions, no two
\* participants of one meeting have the same email: a submission with an
\* email the meeting has updates that participant and adds none, also when
\* two submissions with the same new email are processed at the same time.
C28_NoTwoParticipantsShareEmail ==
    \A i, j \in DOMAIN participantRows :
        (i # j /\ participantRows[i].meetingId = participantRows[j].meetingId)
            => participantRows[i].email # participantRows[j].email


\* the step in which request r computes the results of its meeting, mails
\* them and answers with them
ResultsSentBy(r) ==
    /\ requests[r].pc = "complete"
    /\ requests'[r] = Idle
    /\ response'.isComplete

\* C29: the completion side effects of a meeting (overlap computation,
\* compromise suggestion, result mails) are run at most once: a submission
\* runs them only for a meeting that is not COMPLETED yet; no re-submission,
\* additional submission or concurrently processed completing submission
\* runs them for a meeting that is COMPLETED.
C29_ResultsSentOnce ==
    [][\A r \in Requests :
        ResultsSentBy(r) => meetings[requests[r].meetingId].status # "COMPLETED"]_vars

-----------------------------------------------------------------------------
(* Further properties of the suggestion returned by getAISuggestion *)

\* the top candidates of the call
CallCandidates ==
    TopCandidates(aiIn.participants, aiIn.slotDuration, aiIn.dateRangeStart,
                  aiIn.dateRangeEnd)

\* the suggestion was computed by a fallback, not taken from the answer
IsFallback == aiOut.reasoning = FallbackReasoning /\ aiOut.impactFrom = "computed"

====
